---- MODULE Spec2Model ----
(***************************************************************************)
(* Model of the at-bus-load pipeline.                                      *)
(*                                                                         *)
(*   ingestion : at_bus_load/get_at_api_data.py   main()                   *)
(*   promotion : at_bus_load/move_gcs_data_to_bq.py main()                 *)
(*                                                                         *)
(* Strings that the code builds or takes apart (object keys, URIs, table   *)
(* ids) are sequences of tokens; a token is a TLA+ string that the code    *)
(* never looks inside of, except for the literals of its own patterns.     *)
(* A data frame is [columns, rows]; a parquet file holds a data frame.     *)
(***************************************************************************)
EXTENDS Integers, Sequences, FiniteSets, TLC

VARIABLES
    run,        \* run[r]: one invocation of an entry point: its locals and position
    store,      \* object store: object path (<<bucket, "/">> \o key) -> data frame
    localFs,    \* working directory of the host: file path -> data frame
    warehouse,  \* warehouse: <<dataset, table id>> -> data frame
    jobs,       \* load jobs submitted to the warehouse, in submission order
    apiStops,   \* source API: date -> payload array of the stops entity
    external,   \* number of writes to the object store by other writers so far
    call        \* a direct call of one function: its arguments, then its result

vars == <<run, store, localFs, warehouse, jobs, apiStops, external, call>>

----------------------------------------------------------------------------
(* Bounds *)

MaxStops == 3
MaxExternal == 1

\* a run and the run after it (a re-run, or a second invocation)
Runs == {1, 2}

Dates == {"2024-01-01", "2024-01-02"}

\* ids the source API may report and external writers may use
StopIds == {"100", "200", "300", "400"}

\* stop codes the source API may report: one allow-listed, one not
ApiCodes == {"8147", "9999"}

----------------------------------------------------------------------------
(* Sequence helpers *)

Range(s) == {s[i] : i \in 1..Len(s)}

IsPrefix(p, s) == Len(p) <= Len(s) /\ SubSeq(s, 1, Len(p)) = p

RECURSIVE SelectIdx(_, _, _)
\* the subsequence of s at the indices i (ascending) with Keep[i]
SelectIdx(s, Keep, i) ==
    IF i > Len(s) THEN <<>>
    ELSE (IF Keep[i] THEN <<s[i]>> ELSE <<>>) \o SelectIdx(s, Keep, i + 1)

\* all sequences without repetition over S of length at most n
RECURSIVE InjSeqs(_, _)
InjSeqs(S, n) ==
    IF n = 0 THEN {<<>>}
    ELSE LET shorter == InjSeqs(S, n - 1)
         IN  shorter \cup
             UNION {{Append(q, x) : x \in S \ Range(q)} : q \in shorter}

----------------------------------------------------------------------------
(* Data frames; get_at_gtfs_data_from_at_mobile_api lines 52-61 *)

NoFrame == [columns |-> {}, rows |-> <<>>]

\* df.unnest(col) for the struct column of a JSON:API item: the column is
\* replaced by one column per field of the struct, one level only
Unnest(item) ==
    LET nested == item.attributes
        top    == DOMAIN item \ {"attributes"}
    IN  [c \in top \cup DOMAIN nested |->
            IF c \in DOMAIN nested THEN nested[c] ELSE item[c]]

\* pl.DataFrame(json_data) followed by the unnest loop
DataFrame(json_data) ==
    [columns |-> IF json_data = <<>> THEN {} ELSE DOMAIN Unnest(json_data[1]),
     rows    |-> [i \in 1..Len(json_data) |-> Unnest(json_data[i])]]

\* .with_columns(pl.lit(api_date).cast(pl.Date).alias("api_date_ingestion")):
\* on a frame without columns the literal makes a frame of one row
with_columns(df, api_date) ==
    IF df.columns = {}
    THEN [columns |-> {"api_date_ingestion"},
          rows    |-> <<[api_date_ingestion |-> api_date]>>]
    ELSE [columns |-> df.columns \cup {"api_date_ingestion"},
          rows    |-> [i \in 1..Len(df.rows) |->
                          [c \in df.columns \cup {"api_date_ingestion"} |->
                              IF c = "api_date_ingestion" THEN api_date
                              ELSE df.rows[i][c]]]]

----------------------------------------------------------------------------
(* The source API *)

RawStop(id, code) ==
    [type |-> "stop", id |-> id, attributes |-> [stop_code |-> code]]

\* payload arrays of the stops entity: items with distinct ids
WellFormedStops ==
    UNION {{[i \in 1..Len(q) |-> RawStop(q[i], c[i])] :
                c \in [1..Len(q) -> ApiCodes]} :
           q \in InjSeqs(StopIds, MaxStops)}

\* payloads whose items lack a column the orchestrator reads
MalformedStops ==
    {<<[type |-> "stop", id |-> "100", attributes |-> [stop_name |-> "A"]]>>,
     <<[type |-> "stop", attributes |-> [stop_code |-> "8147"]]>>}

StopsPayloads == WellFormedStops \cup MalformedStops

\* payload array of stops/{stop_id}/stoptrips for a date
ApiTrips(stop_id, api_date) ==
    IF stop_id = "300" THEN <<>>
    ELSE <<[type |-> "stoptrip", id |-> "t1",
            attributes |-> [stop_id |-> stop_id, service_date |-> api_date]]>>

\* what one request can come to: get_at_api_key raises, the status is not
\* 200, the body has no "data" key (data["data"] raises KeyError), or success
FetchOutcomes == {"ok", "no_api_key", "status_not_200", "no_data_key"}

----------------------------------------------------------------------------
(* get_at_gtfs_data_from_at_mobile_api, lines 37-61 *)

\* HTTP status codes of a response
StatusCodes == {200, 404, 500}

\* JSON bodies: the payload under the key "data", or a body without the key
JsonBodies == {[data |-> payload] : payload \in StopsPayloads}
                  \cup {[message |-> "no data"]}

\* what requests.get returns
Responses ==
    [status_code : StatusCodes, text : {"Not Found", "Internal Server Error"},
     json : JsonBodies]

NoError == [type |-> "none", message |-> <<>>]

\* Exception(f"Request failed with status code {response.status_code}: {response.text}")
RequestFailed(response) ==
    [type |-> "Exception",
     message |-> <<"Request failed with status code ",
                   ToString(response.status_code), ": ", response.text>>]

\* the status check of the script get_API_data.py, which logs and goes on
StatusCheck_log_only(response) == FALSE

\* line 42: if response.status_code != 200, the branch that raises
StatusCheck(response) == response.status_code # 200

\* data.get("data", []) in the place of data["data"]
ReadData_default(data) ==
    IF "data" \in DOMAIN data
    THEN [raised |-> FALSE, error |-> NoError, json_data |-> data.data,
          logged |-> <<>>]
    ELSE [raised |-> FALSE, error |-> NoError, json_data |-> <<>>,
          logged |-> <<"Expected 'data' key in the JSON response">>]

\* lines 46-52: the check of the key "data" logs; data["data"] raises KeyError
ReadData(data) ==
    IF "data" \in DOMAIN data
    THEN [raised |-> FALSE, error |-> NoError, json_data |-> data.data,
          logged |-> <<>>]
    ELSE [raised |-> TRUE, error |-> [type |-> "KeyError", message |-> <<"data">>],
          json_data |-> <<>>,
          logged |-> <<"Expected 'data' key in the JSON response">>]

\* the function from the response on: what it raises or returns, what it
\* logs as an error, and how often it has sent the request, read the body
\* and built the frame
get_at_gtfs_data_from_at_mobile_api(response) ==
    IF StatusCheck(response)
    THEN [raised |-> TRUE, error |-> RequestFailed(response), df |-> NoFrame,
          logged |-> RequestFailed(response).message,
          requests |-> 1, json_calls |-> 0, frames |-> 0]
    ELSE LET read == ReadData(response.json)
         IN  IF read.raised
             THEN [raised |-> TRUE, error |-> read.error, df |-> NoFrame,
                   logged |-> read.logged,
                   requests |-> 1, json_calls |-> 1, frames |-> 0]
             ELSE [raised |-> FALSE, error |-> NoError,
                   df |-> DataFrame(read.json_data), logged |-> read.logged,
                   requests |-> 1, json_calls |-> 1, frames |-> 1]

----------------------------------------------------------------------------
(* The unnest loop of get_at_gtfs_data_from_at_mobile_api, lines 55-59, on *)
(* frames whose cells carry their dtype                                    *)

\* rows of a payload drawn for the loop
MaxRows == 2

NoFields == [x \in {} |-> x]

\* a value of a scalar dtype, and a value of dtype pl.Struct with its fields
Scalar(v) == [kind |-> "scalar", value |-> v, fields |-> NoFields]

Struct(f) == [kind |-> "struct", value |-> "", fields |-> f]

\* the order in which the keys of the JSON objects of a response appear
KeyOrder ==
    <<"id", "attributes", "relationships", "stop_code", "location", "lat", "route">>

Keys(object) == SelectSeq(KeyOrder, LAMBDA k : k \in DOMAIN object)

\* pl.DataFrame(json_data): one column per key of the objects, no column at
\* all for an empty array
TypedFrame(json_data) ==
    [columns |-> IF json_data = <<>> THEN <<>> ELSE Keys(json_data[1]),
     rows    |-> json_data]

\* isinstance(dtype, pl.datatypes.Struct) for a column of the schema
IsStruct(df, col) == df.rows # <<>> /\ df.rows[1][col].kind = "struct"

\* df.schema.items() restricted to the struct columns, in schema order
StructColumns(df) == SelectSeq(df.columns, LAMBDA c : IsStruct(df, c))

DuplicateError(col) == [type |-> "DuplicateError", message |-> <<col>>]

\* df.unnest(col): the fields of the struct take the place of the column;
\* polars raises DuplicateError when a field has the name of another column
unnest(df, col) ==
    LET fields == Keys(df.rows[1][col].fields)
        kept   == SelectSeq(df.columns, LAMBDA c : c # col)
        at     == CHOOSE i \in 1..Len(df.columns) : df.columns[i] = col
        names  == SubSeq(df.columns, 1, at - 1) \o fields \o
                  SubSeq(df.columns, at + 1, Len(df.columns))
    IN  IF Range(fields) \cap Range(kept) # {}
        THEN [raised |-> TRUE,
              error  |-> DuplicateError(CHOOSE f \in Range(fields) \cap Range(kept) : TRUE),
              df     |-> df]
        ELSE [raised |-> FALSE, error |-> NoError,
              df |-> [columns |-> names,
                      rows    |-> [i \in 1..Len(df.rows) |->
                                      [c \in Range(names) |->
                                          IF c \in Range(fields)
                                          THEN df.rows[i][col].fields[c]
                                          ELSE df.rows[i][c]]]]]

\* for col, dtype in ...: if isinstance(dtype, Struct): df = df.unnest(col)
RECURSIVE UnnestEach(_, _)
UnnestEach(df, cols) ==
    IF cols = <<>> THEN [raised |-> FALSE, error |-> NoError, df |-> df]
    ELSE LET step == unnest(df, Head(cols))
         IN  IF step.raised THEN step ELSE UnnestEach(step.df, Tail(cols))

flatten_recursive(df) ==
    LET first == UnnestEach(df, StructColumns(df))
    IN  IF first.raised THEN first
        ELSE UnnestEach(first.df, StructColumns(first.df))
\* the loop runs over the schema the frame has before the first unnest: a
\* struct that an unnest brings to the top level is not visited
flatten(df) == UnnestEach(df, StructColumns(df))

----------------------------------------------------------------------------
(* Addresses *)

\* get_at_api_data.py: client.bucket("pne-open-data")
IngestBucket == "pne-open-data"

\* move_gcs_data_to_bq.py main: source_bucket_name
source_bucket_name == "at-bus-open-data"

dataset_id == "at_bus_bronze"

\* f"at-bus/{api_date}/stops.parquet"
StopsBlobName(api_date) == <<"at-bus", "/", api_date, "/", "stops", ".parquet">>

\* f"at-bus/{api_date}/trips_{stop_id}.parquet"
TripsBlobName(api_date, stop_id) ==
    <<"at-bus", "/", api_date, "/", "trips_", stop_id, ".parquet">>

\* the object a blob of a bucket denotes
ObjectPath(bucket, name) == <<bucket, "/">> \o name

StopsLocalFile == <<"data", "/", "stops", ".parquet">>

TripsLocalFile(stop_id) == <<"data", "/", "trips_", stop_id, ".parquet">>

----------------------------------------------------------------------------
(* Runs *)

Terminal == {"done", "failed"}

\* os.environ of a process that has the API key
WithApiKey == [AT_API_KEY |-> "secret"]

IdleRun(kind, date) ==
    [kind |-> kind, date |-> date, pc |-> "idle", environ |-> WithApiKey,
     df_stops |-> NoFrame, stop_ids |-> <<>>, k |-> 0, df_trips |-> NoFrame,
     blobs |-> <<>>, route_ids |-> <<>>, job |-> 0, log |-> <<>>]

\* one entry of a run's trace of external operations
Event(op, target, ok, data) ==
    [op |-> op, target |-> target, ok |-> ok, data |-> data]

Logged(r, e) == Append(run[r].log, e)

\* the run raises: the exception reaches the top of main
Raise(r, e) == run' = [run EXCEPT ![r].pc = "failed", ![r].log = Logged(r, e)]

----------------------------------------------------------------------------
(* The date argument: entrypoints_params.validate_date *)

\* a run of digits of a date string, and any other run of characters
Num(text, digits, value) == [text |-> text, digits |-> digits, value |-> value]

Sep(text) == [text |-> text, digits |-> 0, value |-> 0]

\* the date strings given to the entry points, each as its runs of digits
\* and the characters between them
Spelling ==
    ("2024-01-01" :> <<Num("2024", 4, 2024), Sep("-"), Num("01", 2, 1), Sep("-"),
                       Num("01", 2, 1)>>) @@
    ("2024-01-02" :> <<Num("2024", 4, 2024), Sep("-"), Num("01", 2, 1), Sep("-"),
                       Num("02", 2, 2)>>) @@
    ("2020-02-29" :> <<Num("2020", 4, 2020), Sep("-"), Num("02", 2, 2), Sep("-"),
                       Num("29", 2, 29)>>) @@
    ("2000-02-29" :> <<Num("2000", 4, 2000), Sep("-"), Num("02", 2, 2), Sep("-"),
                       Num("29", 2, 29)>>) @@
    ("2023-02-29" :> <<Num("2023", 4, 2023), Sep("-"), Num("02", 2, 2), Sep("-"),
                       Num("29", 2, 29)>>) @@
    ("2025-04-31" :> <<Num("2025", 4, 2025), Sep("-"), Num("04", 2, 4), Sep("-"),
                       Num("31", 2, 31)>>) @@
    ("2025-13-01" :> <<Num("2025", 4, 2025), Sep("-"), Num("13", 2, 13), Sep("-"),
                       Num("01", 2, 1)>>) @@
    ("2025-01-00" :> <<Num("2025", 4, 2025), Sep("-"), Num("01", 2, 1), Sep("-"),
                       Num("00", 2, 0)>>) @@
    ("2025-6-29" :> <<Num("2025", 4, 2025), Sep("-"), Num("6", 1, 6), Sep("-"),
                      Num("29", 2, 29)>>) @@
    ("2025/06/29" :> <<Num("2025", 4, 2025), Sep("/"), Num("06", 2, 6), Sep("/"),
                       Num("29", 2, 29)>>) @@
    ("29-06-2025" :> <<Num("29", 2, 29), Sep("-"), Num("06", 2, 6), Sep("-"),
                       Num("2025", 4, 2025)>>) @@
    ("2025-06-29T10:30:00" :>
        <<Num("2025", 4, 2025), Sep("-"), Num("06", 2, 6), Sep("-"), Num("29", 2, 29),
          Sep("T"), Num("10", 2, 10), Sep(":"), Num("30", 2, 30), Sep(":"),
          Num("00", 2, 0)>>) @@
    ("2025-06" :> <<Num("2025", 4, 2025), Sep("-"), Num("06", 2, 6)>>) @@
    ("not-a-date" :> <<Sep("not-a-date")>>) @@
    ("" :> <<>>)

DateArgs == DOMAIN Spelling

IsLeapYear(y) == (y % 4 = 0 /\ y % 100 # 0) \/ y % 400 = 0

DaysInMonth(y, m) ==
    IF m = 2 THEN (IF IsLeapYear(y) THEN 29 ELSE 28)
    ELSE IF m \in {4, 6, 9, 11} THEN 30 ELSE 31

\* the string is four digits, "-", two digits, "-", two digits, and the
\* numbers are a year, a month of it and a day of that month
IsIsoDate(tokens) ==
    /\ Len(tokens) = 5
    /\ tokens[1].digits = 4 /\ tokens[3].digits = 2 /\ tokens[5].digits = 2
    /\ tokens[2].text = "-" /\ tokens[4].text = "-"
    /\ tokens[1].value >= 1
    /\ tokens[3].value \in 1..12
    /\ tokens[5].value \in 1..DaysInMonth(tokens[1].value, tokens[3].value)

\* validate_date(date_str): returns, or raises typer.BadParameter
validate_date(date_str) ==
    IF IsIsoDate(Spelling[date_str]) THEN NoError
    ELSE [type |-> "BadParameter",
          message |-> <<"Invalid date format: ", date_str,
                        ". Please use YYYY-MM-DD format.">>]

----------------------------------------------------------------------------
(* models.py: the pydantic models of the API responses. The fields kept   *)
(* are those the validators read, and one field without a validator.      *)

\* pydantic's error for an input without a field the model declares
ValidationError(field) ==
    [type |-> "ValidationError", message |-> <<field, "Field required">>]

\* time.fromisoformat(v) raises ValueError: v is not HH, HH:MM or HH:MM:SS
\* of two digits each, or a number is not an hour, a minute or a second
time_fromisoformat_raises(v) ==
    ~ /\ Len(v) \in {1, 3, 5}
      /\ \A i \in 1..Len(v) :
            IF i % 2 = 1 THEN v[i].digits = 2 ELSE v[i].text = ":"
      /\ v[1].value \in 0..23
      /\ \A i \in {3, 5} \cap (1..Len(v)) : v[i].value \in 0..59

\* date.fromisoformat(v) raises ValueError: v is not YYYY-MM-DD or the
\* numbers are not a day of the calendar
date_fromisoformat_raises(v) ==
    ~ /\ Len(v) = 5
      /\ v[1].digits = 4 /\ v[3].digits = 2 /\ v[5].digits = 2
      /\ v[2].text = "-" /\ v[4].text = "-"
      /\ v[1].value \in 1..9999
      /\ v[3].value \in 1..12
      /\ v[5].value \in 1..DaysInMonth(v[1].value, v[3].value)

\* the validators: each returns the value it is given; what it logs as a
\* warning is the result here
validate_latitude(v) ==
    IF ~(-90 <= v /\ v <= 90)
    THEN <<"Latitude is outside valid range (-90 to 90), but continuing with value">>
    ELSE <<>>

validate_longitude(v) ==
    IF ~(-180 <= v /\ v <= 180)
    THEN <<"Longitude is outside valid range (-180 to 180), but continuing with value">>
    ELSE <<>>

StopData_validate_type(v) ==
    IF v # "stop" THEN <<"Expected type \"stop\", but continuing with value">>
    ELSE <<>>

validate_time_format(v) ==
    IF time_fromisoformat_raises(v)
    THEN <<"Time is not in HH:MM:SS format, but continuing with value">>
    ELSE <<>>

validate_date_format(v) ==
    IF date_fromisoformat_raises(v)
    THEN <<"Date is not in YYYY-MM-DD format, but continuing with value">>
    ELSE <<>>

validate_stop_sequence(v) ==
    IF v <= 0 THEN <<"Stop sequence is not positive, but continuing with value">>
    ELSE <<>>

TripData_validate_type(v) ==
    IF v # "stoptrip" THEN <<"Expected type \"stoptrip\", but continuing with value">>
    ELSE <<>>

\* the construction of a model: ValidationError for a missing field, else
\* the record with the values of the input
Constructed(fields, data, warnings) ==
    IF fields \subseteq DOMAIN data
    THEN [raised |-> FALSE, error |-> NoError,
          record |-> [f \in fields |-> data[f]], warnings |-> warnings]
    ELSE [raised |-> TRUE,
          error  |-> ValidationError(CHOOSE f \in fields \ DOMAIN data : TRUE),
          record |-> NoFields, warnings |-> warnings]

\* stop_id, stop_lat, stop_lon, location_type: location_type is a plain int
StopAttributes(data) ==
    Constructed({"stop_id", "stop_lat", "stop_lon", "location_type"}, data,
                (IF "stop_lat" \in DOMAIN data
                 THEN validate_latitude(data.stop_lat) ELSE <<>>) \o
                (IF "stop_lon" \in DOMAIN data
                 THEN validate_longitude(data.stop_lon) ELSE <<>>))

\* arrival_time, direction_id, service_date, stop_sequence: direction_id is
\* a plain int
TripAttributes(data) ==
    Constructed({"arrival_time", "direction_id", "service_date", "stop_sequence"},
                data,
                (IF "arrival_time" \in DOMAIN data
                 THEN validate_time_format(data.arrival_time) ELSE <<>>) \o
                (IF "service_date" \in DOMAIN data
                 THEN validate_date_format(data.service_date) ELSE <<>>) \o
                (IF "stop_sequence" \in DOMAIN data
                 THEN validate_stop_sequence(data.stop_sequence) ELSE <<>>))

\* type, id and the attributes, which are constructed in their turn
StopData(data) ==
    LET attributes == StopAttributes(data.attributes)
        warnings   == StopData_validate_type(data.type) \o attributes.warnings
    IN  IF attributes.raised THEN [attributes EXCEPT !.warnings = warnings]
        ELSE [raised |-> FALSE, error |-> NoError,
              record |-> [type |-> data.type, id |-> data.id,
                          attributes |-> attributes.record],
              warnings |-> warnings]

TripData(data) ==
    LET attributes == TripAttributes(data.attributes)
        warnings   == TripData_validate_type(data.type) \o attributes.warnings
    IN  IF attributes.raised THEN [attributes EXCEPT !.warnings = warnings]
        ELSE [raised |-> FALSE, error |-> NoError,
              record |-> [type |-> data.type, id |-> data.id,
                          attributes |-> attributes.record],
              warnings |-> warnings]

----------------------------------------------------------------------------
(* Ingestion: get_at_api_data.py *)

StopCodes == {"8147", "8545", "7149", "8331", "7133"}

\* the filter that keeps every record
FilterRows_keep_all(rows) == rows

\* stops_data.filter(pl.col("stop_code").is_in(stop_codes))
FilterRows(rows) ==
    SelectIdx(rows, [i \in 1..Len(rows) |-> rows[i].stop_code \in StopCodes], 1)

\* the entry point without the call of validate_date
IngestStart_unvalidated(r) ==
    /\ run[r].kind = "ingest"
    /\ run[r].pc = "idle"
    /\ run' = [run EXCEPT ![r].pc = "get_stops_data"]
    /\ UNCHANGED <<store, localFs, warehouse, jobs, apiStops, external, call>>

\* main lines 306-314: validate the date, build the client
IngestStart(r) ==
    /\ run[r].kind = "ingest"
    /\ run[r].pc = "idle"
    /\ LET error == validate_date(run[r].date)
       IN  IF error = NoError
           THEN run' = [run EXCEPT ![r].pc = "get_stops_data"]
           ELSE Raise(r, Event("validate_date", error.message, FALSE, NoFrame))
    /\ UNCHANGED <<store, localFs, warehouse, jobs, apiStops, external, call>>

\* get_at_api_key that hands on whatever os.getenv returns
get_at_api_key_unchecked(environ) ==
    [raised |-> FALSE, error |-> NoError,
     api_key |-> IF "AT_API_KEY" \in DOMAIN environ THEN environ["AT_API_KEY"] ELSE ""]

\* get_at_api_key lines 78-86: os.getenv("AT_API_KEY"), ValueError if not api_key
get_at_api_key(environ) ==
    IF "AT_API_KEY" \in DOMAIN environ /\ environ["AT_API_KEY"] # ""
    THEN [raised |-> FALSE, error |-> NoError, api_key |-> environ["AT_API_KEY"]]
    ELSE [raised |-> TRUE,
          error |-> [type |-> "ValueError",
                     message |-> <<"Auckland Transport API key not found.">>],
          api_key |-> ""]

\* what a request that has been sent can come to
HttpOutcomes == FetchOutcomes \ {"no_api_key"}

\* requests.get(url, params=params, headers=headers) for a data_name
Request(data_name) == Event("requests.get", data_name, TRUE, NoFrame)

\* get_stops_data lines 103-120: the headers are built, with the API key,
\* before the request is sent
get_stops_data(r) ==
    /\ run[r].kind = "ingest"
    /\ run[r].pc = "get_stops_data"
    /\ IF get_at_api_key(run[r].environ).raised
       THEN Raise(r, Event("get_stops_data", <<"no_api_key">>, FALSE, NoFrame))
       ELSE \E outcome \in HttpOutcomes :
               LET df == with_columns(DataFrame(apiStops[run[r].date]), run[r].date)
               IN  IF outcome = "ok"
                   THEN run' = [run EXCEPT
                           ![r].pc = "filter_stops_data",
                           ![r].df_stops = df,
                           ![r].log = run[r].log \o
                               <<Request(<<"stops">>),
                                 Event("get_stops_data", <<>>, TRUE, df)>>]
                   ELSE run' = [run EXCEPT
                           ![r].pc = "failed",
                           ![r].log = run[r].log \o
                               <<Request(<<"stops">>),
                                 Event("get_stops_data", <<outcome>>, FALSE, NoFrame)>>]
    /\ UNCHANGED <<store, localFs, warehouse, jobs, apiStops, external, call>>

filter_stops_data(r) ==
    /\ run[r].kind = "ingest"
    /\ run[r].pc = "filter_stops_data"
    /\ LET df == run[r].df_stops
       IN  IF "stop_code" \in df.columns
           THEN run' = [run EXCEPT
                   ![r].pc = "send_stop_write",
                   ![r].df_stops = [df EXCEPT !.rows = FilterRows(df.rows)],
                   ![r].log = Logged(r, Event("filter_stops_data", <<>>, TRUE, NoFrame))]
           ELSE Raise(r, Event("filter_stops_data", <<>>, FALSE, NoFrame))
    /\ UNCHANGED <<store, localFs, warehouse, jobs, apiStops, external, call>>

\* the local write of the stops whose failure is logged and the upload tried
send_stop_write_swallow(r) ==
    /\ run[r].kind = "ingest"
    /\ run[r].pc = "send_stop_write"
    /\ \E ok \in BOOLEAN :
          /\ localFs' = IF ok
                        THEN [f \in DOMAIN localFs \cup {StopsLocalFile} |->
                                 IF f = StopsLocalFile THEN run[r].df_stops
                                 ELSE localFs[f]]
                        ELSE localFs
          /\ run' = [run EXCEPT
                ![r].pc = "send_stop_upload",
                ![r].log = Logged(r, Event("write_parquet", StopsLocalFile,
                                           ok, run[r].df_stops))]
    /\ UNCHANGED <<store, warehouse, jobs, apiStops, external, call>>

\* send_stop_data_to_gcs line 192: df_stops.write_parquet("data/stops.parquet")
send_stop_write(r) ==
    /\ run[r].kind = "ingest"
    /\ run[r].pc = "send_stop_write"
    /\ \E ok \in BOOLEAN :
          IF ok
          THEN /\ localFs' = [f \in DOMAIN localFs \cup {StopsLocalFile} |->
                                 IF f = StopsLocalFile THEN run[r].df_stops
                                 ELSE localFs[f]]
               /\ run' = [run EXCEPT
                     ![r].pc = "send_stop_upload",
                     ![r].log = Logged(r, Event("write_parquet", StopsLocalFile,
                                                TRUE, run[r].df_stops))]
          ELSE /\ Raise(r, Event("write_parquet", StopsLocalFile, FALSE, run[r].df_stops))
               /\ UNCHANGED localFs
    /\ UNCHANGED <<store, warehouse, jobs, apiStops, external, call>>

\* an upload that appends the rows of the file to an object that exists
Upload_append(path, file) ==
    [p \in DOMAIN store \cup {path} |->
        IF p # path THEN store[p]
        ELSE IF path \in DOMAIN store
             THEN [columns |-> store[path].columns \cup localFs[file].columns,
                   rows    |-> store[path].rows \o localFs[file].rows]
             ELSE localFs[file]]

\* blob.upload_from_filename(file): the object becomes what the file holds
Upload(path, file) ==
    [p \in DOMAIN store \cup {path} |->
        IF p = path THEN localFs[file] ELSE store[p]]

\* the upload of the stops whose except clause logs and does not re-raise
send_stop_upload_swallow(r) ==
    /\ run[r].kind = "ingest"
    /\ run[r].pc = "send_stop_upload"
    /\ LET path == ObjectPath(IngestBucket, StopsBlobName(run[r].date))
       IN  \E ok \in BOOLEAN :
              /\ store' = IF ok THEN Upload(path, StopsLocalFile) ELSE store
              /\ run' = [run EXCEPT
                    ![r].pc = "stop_ids",
                    ![r].log = Logged(r, Event("upload_from_filename", path,
                                               ok, run[r].df_stops))]
    /\ UNCHANGED <<localFs, warehouse, jobs, apiStops, external, call>>

\* send_stop_data_to_gcs line 194: blob.upload_from_filename("data/stops.parquet")
send_stop_upload(r) ==
    /\ run[r].kind = "ingest"
    /\ run[r].pc = "send_stop_upload"
    /\ LET path == ObjectPath(IngestBucket, StopsBlobName(run[r].date))
       IN  \E ok \in BOOLEAN :
              IF ok
              THEN /\ store' = Upload(path, StopsLocalFile)
                   /\ run' = [run EXCEPT
                         ![r].pc = "stop_ids",
                         ![r].log = Logged(r, Event("upload_from_filename", path,
                                                    TRUE, run[r].df_stops))]
              ELSE /\ Raise(r, Event("upload_from_filename", path, FALSE,
                                     run[r].df_stops))
                   /\ UNCHANGED store
    /\ UNCHANGED <<localFs, warehouse, jobs, apiStops, external, call>>

\* the loop of main over the stop ids from the last row to the first
stop_ids_reversed(r) ==
    /\ run[r].kind = "ingest"
    /\ run[r].pc = "stop_ids"
    /\ LET df == run[r].df_stops
       IN  IF "id" \in df.columns
           THEN run' = [run EXCEPT
                   ![r].stop_ids = [i \in 1..Len(df.rows) |->
                                       df.rows[Len(df.rows) + 1 - i].id],
                   ![r].k = 1,
                   ![r].pc = IF Len(df.rows) = 0 THEN "done" ELSE "get_trips_data"]
           ELSE Raise(r, Event("stop_ids", <<>>, FALSE, NoFrame))
    /\ UNCHANGED <<store, localFs, warehouse, jobs, apiStops, external, call>>

\* main line 321: stop_ids = df_stops["id"].to_list(), then the loop test
stop_ids(r) ==
    /\ run[r].kind = "ingest"
    /\ run[r].pc = "stop_ids"
    /\ LET df == run[r].df_stops
       IN  IF "id" \in df.columns
           THEN run' = [run EXCEPT
                   ![r].stop_ids = [i \in 1..Len(df.rows) |-> df.rows[i].id],
                   ![r].k = 1,
                   ![r].pc = IF Len(df.rows) = 0 THEN "done" ELSE "get_trips_data"]
           ELSE Raise(r, Event("stop_ids", <<>>, FALSE, NoFrame))
    /\ UNCHANGED <<store, localFs, warehouse, jobs, apiStops, external, call>>

get_trips_data(r) ==
    /\ run[r].kind = "ingest"
    /\ run[r].pc = "get_trips_data"
    /\ LET stop_id == run[r].stop_ids[run[r].k]
           df == with_columns(DataFrame(ApiTrips(stop_id, run[r].date)), run[r].date)
           data_name == <<"stops", "/", stop_id, "/", "stoptrips">>
       IN  IF get_at_api_key(run[r].environ).raised
           THEN Raise(r, Event("get_trips_data", <<stop_id>>, FALSE, NoFrame))
           ELSE \E outcome \in HttpOutcomes :
                   IF outcome = "ok"
                   THEN run' = [run EXCEPT
                           ![r].pc = "send_trips_write",
                           ![r].df_trips = df,
                           ![r].log = run[r].log \o
                               <<Request(data_name),
                                 Event("get_trips_data", <<stop_id>>, TRUE, df)>>]
                   ELSE run' = [run EXCEPT
                           ![r].pc = "failed",
                           ![r].log = run[r].log \o
                               <<Request(data_name),
                                 Event("get_trips_data", <<stop_id>>, FALSE, NoFrame)>>]
    /\ UNCHANGED <<store, localFs, warehouse, jobs, apiStops, external, call>>

\* send_trips_data_to_gcs line 274: df_trips.write_parquet(f"data/trips_{stop_id}.parquet")
send_trips_write(r) ==
    /\ run[r].kind = "ingest"
    /\ run[r].pc = "send_trips_write"
    /\ LET file == TripsLocalFile(run[r].stop_ids[run[r].k])
       IN  \E ok \in BOOLEAN :
              IF ok
              THEN /\ localFs' = [f \in DOMAIN localFs \cup {file} |->
                                     IF f = file THEN run[r].df_trips ELSE localFs[f]]
                   /\ run' = [run EXCEPT
                         ![r].pc = "send_trips_upload",
                         ![r].log = Logged(r, Event("write_parquet", file, TRUE,
                                                    run[r].df_trips))]
              ELSE /\ Raise(r, Event("write_parquet", file, FALSE, run[r].df_trips))
                   /\ UNCHANGED localFs
    /\ UNCHANGED <<store, warehouse, jobs, apiStops, external, call>>

\* the upload of the trips whose failure is logged and the stop id skipped
send_trips_upload_skip(r) ==
    /\ run[r].kind = "ingest"
    /\ run[r].pc = "send_trips_upload"
    /\ LET stop_id == run[r].stop_ids[run[r].k]
           path == ObjectPath(IngestBucket, TripsBlobName(run[r].date, stop_id))
       IN  \E ok \in BOOLEAN :
              /\ store' = IF ok THEN Upload(path, TripsLocalFile(stop_id)) ELSE store
              /\ run' = [run EXCEPT
                    ![r].k = @ + 1,
                    ![r].pc = IF run[r].k = Len(run[r].stop_ids)
                              THEN "done" ELSE "get_trips_data",
                    ![r].log = Logged(r, Event("upload_from_filename", path,
                                               ok, run[r].df_trips))]
    /\ UNCHANGED <<localFs, warehouse, jobs, apiStops, external, call>>

\* send_trips_data_to_gcs line 276, then the next turn of the loop of main
send_trips_upload(r) ==
    /\ run[r].kind = "ingest"
    /\ run[r].pc = "send_trips_upload"
    /\ LET stop_id == run[r].stop_ids[run[r].k]
           path == ObjectPath(IngestBucket, TripsBlobName(run[r].date, stop_id))
       IN  \E ok \in BOOLEAN :
              IF ok
              THEN /\ store' = Upload(path, TripsLocalFile(stop_id))
                   /\ run' = [run EXCEPT
                         ![r].k = @ + 1,
                         ![r].pc = IF run[r].k = Len(run[r].stop_ids)
                                   THEN "done" ELSE "get_trips_data",
                         ![r].log = Logged(r, Event("upload_from_filename", path,
                                                    TRUE, run[r].df_trips))]
              ELSE /\ Raise(r, Event("upload_from_filename", path, FALSE,
                                     run[r].df_trips))
                   /\ UNCHANGED store
    /\ UNCHANGED <<localFs, warehouse, jobs, apiStops, external, call>>

IngestStep(r) ==
    \/ get_stops_data(r)
    \/ filter_stops_data(r)
    \/ send_stop_write(r)
    \/ send_stop_upload(r)
    \/ stop_ids(r)
    \/ get_trips_data(r)
    \/ send_trips_write(r)
    \/ send_trips_upload(r)

\* a run is started once the run before it has ended
Sequential(r) == IF r = 1 THEN TRUE ELSE run[r - 1].pc \in Terminal

----------------------------------------------------------------------------
(* Promotion: move_gcs_data_to_bq.py *)

\* f'gs://{source_bucket_name}/{source_file_name}'
SourceUri(bucket, source_file_name) == <<"gs://", bucket, "/">> \o source_file_name

\* the object a gs:// URI denotes
ObjectOfUri(uri) == Tail(uri)

\* bq_client.dataset(dataset_id).table(table_id)
TableRef(dataset, table_id) == <<dataset, ".">> \o table_id

\* f'{exec_date}/stops.parquet'
StopsSourceFile(exec_date) == <<exec_date, "/", "stops", ".parquet">>

\* f'stops_{exec_date}'
StopsTableId(exec_date) == <<"stops_", exec_date>>

\* f'{exec_date}/trips_{route_id}.parquet'
TripsSourceFile(exec_date, route_id) ==
    <<exec_date, "/", "trips_">> \o route_id \o <<".parquet">>

\* f'trips_{route_id}_{exec_date}'
TripsTableId(exec_date, route_id) == <<"trips_">> \o route_id \o <<"_", exec_date>>

\* WriteDisposition.WRITE_APPEND: the rows of the source are added to the table
WriteDisposition_append(old, source) ==
    [columns |-> old.columns \cup source.columns, rows |-> old.rows \o source.rows]

\* WriteDisposition.WRITE_TRUNCATE: the rows of the source replace the table
WriteDisposition(old, source) == source

\* blob.name.rsplit('/', 1)[-1]
LastSegment(name) ==
    LET slashes == {i \in 1..Len(name) : name[i] = "/"}
    IN  IF slashes = {} THEN name
        ELSE SubSeq(name, (CHOOSE i \in slashes : \A j \in slashes : j <= i) + 1,
                    Len(name))

\* re.search(r'trips_(.*)\.parquet', blob_name): the leftmost "trips_" that
\* has a ".parquet" after it, and the greedy group up to the last ".parquet"
SearchStarts(blob_name) ==
    {i \in 1..Len(blob_name) :
        /\ blob_name[i] = "trips_"
        /\ \E j \in (i + 1)..Len(blob_name) : blob_name[j] = ".parquet"}

SearchMatches(blob_name) == SearchStarts(blob_name) # {}

SearchGroup(blob_name) ==
    LET i == CHOOSE a \in SearchStarts(blob_name) :
                 \A b \in SearchStarts(blob_name) : a <= b
        ends == {j \in (i + 1)..Len(blob_name) : blob_name[j] = ".parquet"}
        j == CHOOSE a \in ends : \A b \in ends : b <= a
    IN  SubSeq(blob_name, i + 1, j - 1)

\* a discovery that keeps only the ids of the stops of the source API
RECURSIVE RouteIds_only_stops(_, _)
RouteIds_only_stops(blobs, i) ==
    IF i > Len(blobs) THEN <<>>
    ELSE LET blob_name == LastSegment(blobs[i])
         IN  (IF SearchMatches(blob_name) /\ Range(SearchGroup(blob_name)) \subseteq StopIds
              THEN <<SearchGroup(blob_name)>> ELSE <<>>)
             \o RouteIds_only_stops(blobs, i + 1)

\* get_all_route_id_from_trips_file_name lines 105-117
RECURSIVE RouteIds(_, _)
RouteIds(blobs, i) ==
    IF i > Len(blobs) THEN <<>>
    ELSE LET blob_name == LastSegment(blobs[i])
         IN  (IF SearchMatches(blob_name) THEN <<SearchGroup(blob_name)>> ELSE <<>>)
             \o RouteIds(blobs, i + 1)

\* the names of the objects of a bucket that start with the prefix
Listed(bucket, prefix) ==
    {SubSeq(p, 3, Len(p)) : p \in {q \in DOMAIN store :
        q[1] = bucket /\ IsPrefix(prefix, SubSeq(q, 3, Len(q)))}}

\* main lines 173-183: validate the date, build the clients
PromoteStart(r) ==
    /\ run[r].kind = "promote"
    /\ run[r].pc = "idle"
    /\ LET error == validate_date(run[r].date)
       IN  IF error = NoError
           THEN run' = [run EXCEPT ![r].pc = "move_stops_submit"]
           ELSE Raise(r, Event("validate_date", error.message, FALSE, NoFrame))
    /\ UNCHANGED <<store, localFs, warehouse, jobs, apiStops, external, call>>

\* move_parquet_file_to_bq_dataset lines 32-43: bq_client.load_table_from_uri
Submit(r, table_id, source_uri, next) ==
    \E ok \in BOOLEAN :
        IF ok
        THEN /\ jobs' = Append(jobs, [run |-> r, table |-> TableRef(dataset_id, table_id),
                                      source_uri |-> source_uri, state |-> "RUNNING",
                                      loaded |-> NoFrame, commit |-> 0])
             /\ run' = [run EXCEPT
                   ![r].pc = next,
                   ![r].job = Len(jobs) + 1,
                   ![r].log = Logged(r, Event("load_table_from_uri", source_uri,
                                              TRUE, NoFrame))]
        ELSE /\ Raise(r, Event("load_table_from_uri", source_uri, FALSE, NoFrame))
             /\ UNCHANGED jobs

\* a load that returns without waiting for its job and takes it for done
Result_no_wait(r, next, k) ==
    IF jobs[run[r].job].state # "FAILED"
    THEN run' = [run EXCEPT
            ![r].pc = next, ![r].k = k,
            ![r].log = Logged(r, Event("result", jobs[run[r].job].table, TRUE,
                                       jobs[run[r].job].loaded))]
    ELSE Raise(r, Event("result", jobs[run[r].job].table, FALSE, NoFrame))

\* move_parquet_file_to_bq_dataset line 46: load_job.result()
Result(r, next, k) ==
    /\ jobs[run[r].job].state # "RUNNING"
    /\ IF jobs[run[r].job].state = "DONE"
       THEN run' = [run EXCEPT
               ![r].pc = next, ![r].k = k,
               ![r].log = Logged(r, Event("result", jobs[run[r].job].table, TRUE,
                                          jobs[run[r].job].loaded))]
       ELSE Raise(r, Event("result", jobs[run[r].job].table, FALSE, NoFrame))

\* a load that moves the file: the source object is deleted once loaded
LoadJob_moves(j) ==
    /\ jobs[j].state = "RUNNING"
    /\ LET object == ObjectOfUri(jobs[j].source_uri)
           table  == jobs[j].table
       IN  \E ok \in BOOLEAN :
              IF ok /\ object \in DOMAIN store
              THEN /\ warehouse' =
                         [t \in DOMAIN warehouse \cup {table} |->
                             IF t = table
                             THEN WriteDisposition(
                                     IF table \in DOMAIN warehouse
                                     THEN warehouse[table] ELSE NoFrame,
                                     store[object])
                             ELSE warehouse[t]]
                   /\ jobs' = [jobs EXCEPT ![j].state = "DONE",
                                           ![j].loaded = store[object],
                                           ![j].commit = 1 + Cardinality(
                                               {i \in 1..Len(jobs) : jobs[i].state = "DONE"})]
                   /\ store' = [p \in DOMAIN store \ {object} |-> store[p]]
              ELSE /\ jobs' = [jobs EXCEPT ![j].state = "FAILED"]
                   /\ UNCHANGED <<warehouse, store>>
    /\ UNCHANGED <<run, localFs, apiStops, external, call>>

\* the warehouse runs a load job: it fails when the source object does not
\* exist or for a reason of its own, and else replaces the table in one step
LoadJob(j) ==
    /\ jobs[j].state = "RUNNING"
    /\ LET object == ObjectOfUri(jobs[j].source_uri)
           table  == jobs[j].table
       IN  \E ok \in BOOLEAN :
              IF ok /\ object \in DOMAIN store
              THEN /\ warehouse' =
                         [t \in DOMAIN warehouse \cup {table} |->
                             IF t = table
                             THEN WriteDisposition(
                                     IF table \in DOMAIN warehouse
                                     THEN warehouse[table] ELSE NoFrame,
                                     store[object])
                             ELSE warehouse[t]]
                   /\ jobs' = [jobs EXCEPT ![j].state = "DONE",
                                           ![j].loaded = store[object],
                                           ![j].commit = 1 + Cardinality(
                                               {i \in 1..Len(jobs) : jobs[i].state = "DONE"})]
              ELSE /\ jobs' = [jobs EXCEPT ![j].state = "FAILED"]
                   /\ UNCHANGED warehouse
    /\ UNCHANGED <<run, store, localFs, apiStops, external, call>>

\* move_stops_data_to_bq lines 71-80, up to the submission of the load
move_stops_submit(r) ==
    /\ run[r].kind = "promote"
    /\ run[r].pc = "move_stops_submit"
    /\ Submit(r, StopsTableId(run[r].date),
              SourceUri(source_bucket_name, StopsSourceFile(run[r].date)),
              "move_stops_result")
    /\ UNCHANGED <<store, localFs, warehouse, apiStops, external, call>>

\* move_stops_data_to_bq going on to the listing after a load that failed
move_stops_result_swallow(r) ==
    /\ run[r].kind = "promote"
    /\ run[r].pc = "move_stops_result"
    /\ jobs[run[r].job].state # "RUNNING"
    /\ run' = [run EXCEPT
          ![r].pc = "get_all_route_id",
          ![r].k = 0,
          ![r].log = Logged(r, Event("result", jobs[run[r].job].table,
                                     jobs[run[r].job].state = "DONE",
                                     jobs[run[r].job].loaded))]
    /\ UNCHANGED <<store, localFs, warehouse, jobs, apiStops, external, call>>

\* move_stops_data_to_bq line 80, from load_job.result() (line 46) on
move_stops_result(r) ==
    /\ run[r].kind = "promote"
    /\ run[r].pc = "move_stops_result"
    /\ Result(r, "get_all_route_id", 0)
    /\ UNCHANGED <<store, localFs, warehouse, jobs, apiStops, external, call>>

\* get_all_route_id_from_trips_file_name, then the loop test of
\* move_trips_data_to_bq; the store returns the listing in an order of its own
get_all_route_id_from_trips_file_name(r) ==
    /\ run[r].kind = "promote"
    /\ run[r].pc = "get_all_route_id"
    /\ \E ok \in BOOLEAN :
          IF ok
          THEN LET names == Listed(source_bucket_name, <<run[r].date>>)
               IN  \E blobs \in {q \in InjSeqs(names, Cardinality(names)) :
                                     Len(q) = Cardinality(names)} :
                      run' = [run EXCEPT
                         ![r].blobs = blobs,
                         ![r].route_ids = RouteIds(blobs, 1),
                         ![r].k = 1,
                         ![r].pc = IF RouteIds(blobs, 1) = <<>> THEN "done"
                                   ELSE "move_trips_submit",
                         ![r].log = Logged(r, Event("list_blobs", <<run[r].date>>,
                                                    TRUE, NoFrame))]
          ELSE Raise(r, Event("list_blobs", <<run[r].date>>, FALSE, NoFrame))
    /\ UNCHANGED <<store, localFs, warehouse, jobs, apiStops, external, call>>

\* move_trips_data_to_bq lines 146-153, up to the submission of the load
move_trips_submit(r) ==
    /\ run[r].kind = "promote"
    /\ run[r].pc = "move_trips_submit"
    /\ LET route_id == run[r].route_ids[run[r].k]
       IN  Submit(r, TripsTableId(run[r].date, route_id),
                  SourceUri(source_bucket_name, TripsSourceFile(run[r].date, route_id)),
                  "move_trips_result")
    /\ UNCHANGED <<store, localFs, warehouse, apiStops, external, call>>

\* the loop of move_trips_data_to_bq going on after a load that failed
move_trips_result_skip(r) ==
    /\ run[r].kind = "promote"
    /\ run[r].pc = "move_trips_result"
    /\ jobs[run[r].job].state # "RUNNING"
    /\ run' = [run EXCEPT
          ![r].pc = IF run[r].k = Len(run[r].route_ids) THEN "done"
                    ELSE "move_trips_submit",
          ![r].k = @ + 1,
          ![r].log = Logged(r, Event("result", jobs[run[r].job].table,
                                     jobs[run[r].job].state = "DONE",
                                     jobs[run[r].job].loaded))]
    /\ UNCHANGED <<store, localFs, warehouse, jobs, apiStops, external, call>>

move_trips_result(r) ==
    /\ run[r].kind = "promote"
    /\ run[r].pc = "move_trips_result"
    /\ Result(r, IF run[r].k = Len(run[r].route_ids) THEN "done"
                 ELSE "move_trips_submit", run[r].k + 1)
    /\ UNCHANGED <<store, localFs, warehouse, jobs, apiStops, external, call>>

PromoteStep(r) ==
    \/ move_stops_submit(r)
    \/ move_stops_result(r)
    \/ get_all_route_id_from_trips_file_name(r)
    \/ move_trips_submit(r)
    \/ move_trips_result(r)

----------------------------------------------------------------------------
(* Other writers of the promotion bucket *)

\* an object that some other writer has put into the bucket
ExternalFrame(version) == [columns |-> {"v"}, rows |-> <<[v |-> version]>>]

\* names under which other writers put objects for a date
ExternalNames(d) ==
    {<<d, "/", "stops", ".parquet">>,
     <<d, "/", "trips_", "100", ".parquet">>,
     <<d, "/", "trips_", "777", ".parquet">>,
     <<d, "/", "old_", "trips_", "100", ".parquet">>}

\* the promotion bucket as other writers have left it
ExternalStores(names) ==
    UNION {{[p \in {ObjectPath(source_bucket_name, n) : n \in S} |-> ExternalFrame("1")]} :
           S \in SUBSET names}

\* another writer replaces or creates an object of the promotion bucket
ExternalUpload ==
    /\ external < MaxExternal
    /\ \E path \in DOMAIN store :
          /\ path[1] = source_bucket_name
          /\ store' = [store EXCEPT ![path] = ExternalFrame("2")]
    /\ external' = external + 1
    /\ UNCHANGED <<run, localFs, warehouse, jobs, apiStops, call>>

----------------------------------------------------------------------------
(* Runs one after the other: two ingestion runs, two promotion runs of one *)
(* date, or an ingestion run followed by the promotion run of its date     *)

EmptyFn == [x \in {} |-> NoFrame]

\* no function is called directly
NoCall == [fn |-> "none", pc |-> "returned"]

Date1 == "2024-01-01"

InitIngest ==
    /\ \E payload \in StopsPayloads, again \in Dates :
          /\ run = [r \in Runs |-> IdleRun("ingest", IF r = 1 THEN Date1 ELSE again)]
          /\ apiStops = [x \in Dates |-> payload]
    /\ store = EmptyFn

InitPromote ==
    /\ run = [r \in Runs |-> IdleRun("promote", Date1)]
    /\ apiStops = [x \in Dates |-> <<>>]
    /\ store \in ExternalStores(ExternalNames(Date1))

InitPipeline ==
    /\ run = [r \in Runs |-> IdleRun(IF r = 1 THEN "ingest" ELSE "promote", Date1)]
    /\ \E payload \in StopsPayloads : apiStops = [x \in Dates |-> payload]
    /\ store \in ExternalStores({StopsSourceFile(Date1)})

Init ==
    /\ InitIngest \/ InitPromote \/ InitPipeline
    /\ localFs = EmptyFn
    /\ warehouse = EmptyFn
    /\ jobs = <<>>
    /\ external = 0
    /\ call = NoCall

Next ==
    \/ \E r \in Runs :
          \/ Sequential(r) /\ IngestStart(r)
          \/ IngestStep(r)
          \/ Sequential(r) /\ PromoteStart(r)
          \/ PromoteStep(r)
    \/ \E j \in 1..Len(jobs) : LoadJob(j)

Spec == Init /\ [][Next]_vars

----------------------------------------------------------------------------
(* Two promotion runs of one date at the same time, and other writers *)

InitConcurrentPromote ==
    /\ run = [r \in Runs |-> IdleRun("promote", Date1)]
    /\ apiStops = [x \in Dates |-> <<>>]
    /\ store \in ExternalStores({StopsSourceFile(Date1),
                                 TripsSourceFile(Date1, <<"100">>)})
    /\ localFs = EmptyFn
    /\ warehouse = EmptyFn
    /\ jobs = <<>>
    /\ external = 0
    /\ call = NoCall

NextConcurrentPromote ==
    \/ \E r \in Runs :
          \/ PromoteStart(r)
          \/ PromoteStep(r)
    \/ \E j \in 1..Len(jobs) : LoadJob(j)
    \/ ExternalUpload

SpecConcurrentPromote == InitConcurrentPromote /\ [][NextConcurrentPromote]_vars

----------------------------------------------------------------------------
(* Two ingestion runs of different dates at the same time, started in the  *)
(* same working directory                                                  *)

Date2 == "2024-01-02"

InitConcurrentIngest ==
    /\ run = [r \in Runs |-> IdleRun("ingest", IF r = 1 THEN Date1 ELSE Date2)]
    /\ \E payload \in StopsPayloads : apiStops = [x \in Dates |-> payload]
    /\ store = EmptyFn
    /\ localFs = EmptyFn
    /\ warehouse = EmptyFn
    /\ jobs = <<>>
    /\ external = 0
    /\ call = NoCall

NextConcurrentIngest ==
    \E r \in Runs :
        \/ IngestStart(r)
        \/ IngestStep(r)

SpecConcurrentIngest == InitConcurrentIngest /\ [][NextConcurrentIngest]_vars

----------------------------------------------------------------------------
(* The sinks called directly, one call after the other, with any records   *)

\* record sets handed to a sink
SinkFrames == {NoFrame, ExternalFrame("1"), ExternalFrame("2")}

\* send_stop_data_to_gcs(client, df_stops, api_date) is called
CallSendStop(r) ==
    /\ run[r].kind = "ingest"
    /\ run[r].pc = "idle"
    /\ \E df \in SinkFrames :
          run' = [run EXCEPT ![r].pc = "send_stop_write", ![r].df_stops = df]
    /\ UNCHANGED <<store, localFs, warehouse, jobs, apiStops, external, call>>

\* send_trips_data_to_gcs(client, df_trips, stop_id, api_date) is called
CallSendTrips(r) ==
    /\ run[r].kind = "ingest"
    /\ run[r].pc = "idle"
    /\ \E df \in SinkFrames, stop_id \in StopIds :
          run' = [run EXCEPT ![r].pc = "send_trips_write", ![r].df_trips = df,
                             ![r].stop_ids = <<stop_id>>, ![r].k = 1]
    /\ UNCHANGED <<store, localFs, warehouse, jobs, apiStops, external, call>>

\* the call of a sink has come back to its caller, with or without an error
SinkReturned(r) == run[r].pc \in {"stop_ids", "done", "failed"}

InitSink ==
    /\ \E again \in Dates :
          run = [r \in Runs |-> IdleRun("ingest", IF r = 1 THEN Date1 ELSE again)]
    /\ apiStops = [x \in Dates |-> <<>>]
    /\ store = EmptyFn
    /\ localFs = EmptyFn
    /\ warehouse = EmptyFn
    /\ jobs = <<>>
    /\ external = 0
    /\ call = NoCall

NextSink ==
    \E r \in Runs :
        \/ (IF r = 1 THEN TRUE ELSE SinkReturned(r - 1)) /\ CallSendStop(r)
        \/ (IF r = 1 THEN TRUE ELSE SinkReturned(r - 1)) /\ CallSendTrips(r)
        \/ send_stop_write(r)
        \/ send_stop_upload(r)
        \/ send_trips_write(r)
        \/ send_trips_upload(r)

SpecSink == InitSink /\ [][NextSink]_vars

----------------------------------------------------------------------------
(* Discovery called directly on a bucket that holds any of these objects   *)

\* object names under a date: a trips object, one whose identifier has
\* punctuation, one in a sub-folder, one with a suffix after the extension
DiscoveryNames(d) ==
    {<<d, "/", "stops", ".parquet">>,
     <<d, "/", "trips_", "100", ".parquet">>,
     <<d, "/", "trips_", "route", "-", "001", "_", "A", ".parquet">>,
     <<d, "/", "sub", "/", "trips_", "200", ".parquet">>,
     <<d, "/", "trips_", "100", ".parquet", ".bak">>}

\* get_all_route_id_from_trips_file_name(gcs_client, source_bucket_name, exec_date)
\* is called
CallDiscovery(r) ==
    /\ run[r].kind = "promote"
    /\ run[r].pc = "idle"
    /\ run' = [run EXCEPT ![r].pc = "get_all_route_id"]
    /\ UNCHANGED <<store, localFs, warehouse, jobs, apiStops, external, call>>

InitDiscovery ==
    /\ run = [r \in Runs |-> IdleRun("promote", Date1)]
    /\ apiStops = [x \in Dates |-> <<>>]
    /\ store \in ExternalStores(DiscoveryNames(Date1))
    /\ localFs = EmptyFn
    /\ warehouse = EmptyFn
    /\ jobs = <<>>
    /\ external = 0
    /\ call = NoCall

NextDiscovery ==
    \E r \in Runs :
        \/ CallDiscovery(r)
        \/ get_all_route_id_from_trips_file_name(r)

SpecDiscovery == InitDiscovery /\ [][NextDiscovery]_vars

----------------------------------------------------------------------------
(* The fetch called directly, with any response of the source API *)

InitFetch ==
    /\ call \in [fn : {"get_at_gtfs_data_from_at_mobile_api"}, pc : {"called"},
                 response : Responses, result : {NoError}]
    /\ run = [r \in Runs |-> IdleRun("none", Date1)]
    /\ apiStops = [x \in Dates |-> <<>>]
    /\ store = EmptyFn
    /\ localFs = EmptyFn
    /\ warehouse = EmptyFn
    /\ jobs = <<>>
    /\ external = 0

\* the call runs to its return or to the exception it raises
Fetch ==
    /\ call.fn = "get_at_gtfs_data_from_at_mobile_api"
    /\ call.pc = "called"
    /\ call' = [call EXCEPT !.pc = "returned",
                            !.result = get_at_gtfs_data_from_at_mobile_api(call.response)]
    /\ UNCHANGED <<run, store, localFs, warehouse, jobs, apiStops, external>>

NextFetch == Fetch

SpecFetch == InitFetch /\ [][NextFetch]_vars

----------------------------------------------------------------------------
(* The unnest loop applied to payloads of every shape, and again to its   *)
(* own output                                                              *)

\* the value of the key "attributes": flat, with a struct among its fields,
\* or with a field named as a top-level key
AttributeCells ==
    {Struct([stop_code |-> Scalar(c)]) : c \in ApiCodes} \cup
    {Struct([stop_code |-> Scalar("8147"),
             location  |-> Struct([lat |-> Scalar("-36.8485")])]),
     Struct([id |-> Scalar("100")])}

RelationshipCells == {Scalar("none"), Struct([route |-> Scalar("r1")])}

Items ==
    {i @@ a @@ r :
        i \in {[id |-> Scalar(v)] : v \in {"100", "200"}},
        a \in {NoFields} \cup {[attributes |-> c] : c \in AttributeCells},
        r \in {NoFields} \cup {[relationships |-> c] : c \in RelationshipCells}}

RECURSIVE Dtype(_)
Dtype(cell) ==
    IF cell.kind = "scalar" THEN Scalar("")
    ELSE Struct([f \in DOMAIN cell.fields |-> Dtype(cell.fields[f])])

Shape(item) == [c \in DOMAIN item |-> Dtype(item[c])]

\* arrays of objects of one shape (the API's declared shape)
UniformPayloads ==
    {q \in UNION {[1..n -> Items] : n \in 0..MaxRows} :
        \A i \in 1..Len(q) : Shape(q[i]) = Shape(q[1])}

NoFlattened == [raised |-> FALSE, error |-> NoError, df |-> TypedFrame(<<>>)]

InitFlatten ==
    /\ call \in [fn : {"flatten"}, pc : {"called"}, json_data : UniformPayloads,
                 once : {NoFlattened}, twice : {NoFlattened}]
    /\ run = [r \in Runs |-> IdleRun("none", Date1)]
    /\ apiStops = [x \in Dates |-> <<>>]
    /\ store = EmptyFn
    /\ localFs = EmptyFn
    /\ warehouse = EmptyFn
    /\ jobs = <<>>
    /\ external = 0

\* pl.DataFrame(json_data) and the loop
Flatten ==
    /\ call.fn = "flatten"
    /\ call.pc = "called"
    /\ call' = [call EXCEPT !.pc = "flattened",
                            !.once = flatten(TypedFrame(call.json_data))]
    /\ UNCHANGED <<run, store, localFs, warehouse, jobs, apiStops, external>>

\* the loop on the frame it has returned
FlattenAgain ==
    /\ call.fn = "flatten"
    /\ call.pc = "flattened"
    /\ ~call.once.raised
    /\ call' = [call EXCEPT !.pc = "flattened_again",
                            !.twice = flatten(call.once.df)]
    /\ UNCHANGED <<run, store, localFs, warehouse, jobs, apiStops, external>>

NextFlatten == Flatten \/ FlattenAgain

SpecFlatten == InitFlatten /\ [][NextFlatten]_vars

----------------------------------------------------------------------------
(* The models constructed directly, from inputs in and out of range *)

Latitudes == {-91, -90, 0, 90, 91}

Longitudes == {-181, -180, 175, 181}

LocationTypes == {-1, 0, 1, 4, 5}

Times ==
    {<<Num("05", 2, 5), Sep(":"), Num("35", 2, 35), Sep(":"), Num("00", 2, 0)>>,
     <<Num("25", 2, 25), Sep(":"), Num("35", 2, 35), Sep(":"), Num("00", 2, 0)>>,
     <<Num("5", 1, 5), Sep("pm")>>}

ServiceDates == {Spelling[d] : d \in {"2024-01-01", "2025/06/29", "2023-02-29"}}

DirectionIds == {0, 1, 2}

StopSequences == {-1, 0, 1, 3}

StopAttributesInputs ==
    [stop_id : {"100-56c57897"}, stop_lat : Latitudes, stop_lon : Longitudes,
     location_type : LocationTypes]
    \cup [stop_id : {"100-56c57897"}, stop_lon : Longitudes,
          location_type : LocationTypes]

TripAttributesInputs ==
    [arrival_time : Times, direction_id : DirectionIds,
     service_date : ServiceDates, stop_sequence : StopSequences]
    \cup [arrival_time : Times, direction_id : DirectionIds,
          service_date : ServiceDates]

StopDataInputs ==
    [type : {"stop", "stops", "invalid_type"}, id : {"100-56c57897"},
     attributes : {a \in StopAttributesInputs :
                      a.stop_lon = 175 /\ a.location_type \in {1, 5}}]

TripDataInputs ==
    [type : {"stoptrip", "stoptrips", "invalid_type"}, id : {"t1"},
     attributes : {a \in TripAttributesInputs :
                      a.direction_id = 1 /\ a.service_date = Spelling["2024-01-01"]}]

NoRecord == [raised |-> FALSE, error |-> NoError, record |-> NoFields,
             warnings |-> <<>>]

InitModels ==
    /\ call \in [fn : {"StopAttributes"}, pc : {"called"},
                 data : StopAttributesInputs, result : {NoRecord}]
          \cup [fn : {"StopData"}, pc : {"called"},
                data : StopDataInputs, result : {NoRecord}]
          \cup [fn : {"TripAttributes"}, pc : {"called"},
                data : TripAttributesInputs, result : {NoRecord}]
          \cup [fn : {"TripData"}, pc : {"called"},
                data : TripDataInputs, result : {NoRecord}]
    /\ run = [r \in Runs |-> IdleRun("none", Date1)]
    /\ apiStops = [x \in Dates |-> <<>>]
    /\ store = EmptyFn
    /\ localFs = EmptyFn
    /\ warehouse = EmptyFn
    /\ jobs = <<>>
    /\ external = 0

ConstructStopAttributes ==
    /\ call.fn = "StopAttributes"
    /\ call.pc = "called"
    /\ call' = [call EXCEPT !.pc = "returned", !.result = StopAttributes(call.data)]
    /\ UNCHANGED <<run, store, localFs, warehouse, jobs, apiStops, external>>

ConstructStopData ==
    /\ call.fn = "StopData"
    /\ call.pc = "called"
    /\ call' = [call EXCEPT !.pc = "returned", !.result = StopData(call.data)]
    /\ UNCHANGED <<run, store, localFs, warehouse, jobs, apiStops, external>>

ConstructTripAttributes ==
    /\ call.fn = "TripAttributes"
    /\ call.pc = "called"
    /\ call' = [call EXCEPT !.pc = "returned", !.result = TripAttributes(call.data)]
    /\ UNCHANGED <<run, store, localFs, warehouse, jobs, apiStops, external>>

ConstructTripData ==
    /\ call.fn = "TripData"
    /\ call.pc = "called"
    /\ call' = [call EXCEPT !.pc = "returned", !.result = TripData(call.data)]
    /\ UNCHANGED <<run, store, localFs, warehouse, jobs, apiStops, external>>

NextModels ==
    \/ ConstructStopAttributes
    \/ ConstructStopData
    \/ ConstructTripAttributes
    \/ ConstructTripData

SpecModels == InitModels /\ [][NextModels]_vars

----------------------------------------------------------------------------
(* The filter called directly *)

\* stop codes of the records handed to the filter: the five of the
\* allow-list and two others
FilterCodes == StopCodes \cup {"9999", "814"}

\* frames handed to the filter: the frames of up to two records with these
\* codes, a frame of no rows that has the columns, the frame without
\* columns that pl.DataFrame([]) is, and that frame with the date column
FilterFrames ==
    {DataFrame([i \in 1..Len(c) |-> RawStop(<<"100", "200">>[i], c[i])]) :
        c \in UNION {[1..n -> FilterCodes] : n \in 1..2}}
    \cup {[columns |-> {"type", "id", "stop_code"}, rows |-> <<>>],
          NoFrame,
          with_columns(DataFrame(<<>>), Date1)}

\* filter_stops_data(stops_data) is called
CallFilter(r) ==
    /\ run[r].kind = "ingest"
    /\ run[r].pc = "idle"
    /\ \E df \in FilterFrames :
          run' = [run EXCEPT
             ![r].pc = "filter_stops_data",
             ![r].df_stops = df,
             ![r].log = Logged(r, Event("call", <<"filter_stops_data">>, TRUE, df))]
    /\ UNCHANGED <<store, localFs, warehouse, jobs, apiStops, external, call>>

InitFilter ==
    /\ run = [r \in Runs |-> IdleRun("ingest", Date1)]
    /\ apiStops = [x \in Dates |-> <<>>]
    /\ store = EmptyFn
    /\ localFs = EmptyFn
    /\ warehouse = EmptyFn
    /\ jobs = <<>>
    /\ external = 0
    /\ call = NoCall

NextFilter ==
    \E r \in Runs :
        \/ CallFilter(r)
        \/ filter_stops_data(r)

SpecFilter == InitFilter /\ [][NextFilter]_vars

----------------------------------------------------------------------------
(* The entry points called with any date argument, one after the other *)

InitEntry ==
    /\ \E kinds \in [Runs -> {"ingest", "promote"}], dates \in [Runs -> DateArgs] :
          run = [r \in Runs |-> IdleRun(kinds[r], dates[r])]
    /\ apiStops = [x \in DateArgs |-> <<RawStop("100", "8147")>>]
    /\ store \in ExternalStores({StopsSourceFile(Date1),
                                 TripsSourceFile(Date1, <<"100">>)})
    /\ localFs = EmptyFn
    /\ warehouse = EmptyFn
    /\ jobs = <<>>
    /\ external = 0
    /\ call = NoCall

SpecEntry == InitEntry /\ [][Next]_vars

----------------------------------------------------------------------------
(* Ingestion runs of processes with and without the API key, one after the *)
(* other                                                                   *)

\* os.environ: AT_API_KEY unset, set to the empty string, or set to a key
Environs == {<<>>, [AT_API_KEY |-> ""], WithApiKey}

InitConfig ==
    /\ \E environs \in [Runs -> Environs] :
          run = [r \in Runs |-> [IdleRun("ingest", Date1) EXCEPT !.environ = environs[r]]]
    /\ \E payload \in {p \in WellFormedStops : Len(p) <= 2} :
          apiStops = [x \in Dates |-> payload]
    /\ store = EmptyFn
    /\ localFs = EmptyFn
    /\ warehouse = EmptyFn
    /\ jobs = <<>>
    /\ external = 0
    /\ call = NoCall

NextConfig ==
    \E r \in Runs :
        \/ Sequential(r) /\ IngestStart(r)
        \/ IngestStep(r)

SpecConfig == InitConfig /\ [][NextConfig]_vars

----------------------------------------------------------------------------
(* Reading a run's trace *)

RECURSIVE SelectOp(_, _, _)
\* the entries of a trace with one of the given operations, from entry i on
SelectOp(log, ops, i) ==
    IF i > Len(log) THEN <<>>
    ELSE (IF log[i].op \in ops THEN <<log[i]>> ELSE <<>>) \o SelectOp(log, ops, i + 1)

Targets(events) == [i \in 1..Len(events) |-> events[i].target]

IsTripsEvent(e) ==
    \/ e.op = "get_trips_data"
    \/ e.op \in {"write_parquet", "upload_from_filename"} /\ "trips_" \in Range(e.target)

IsStopsEvent(e) ==
    \/ e.op \in {"get_stops_data", "filter_stops_data"}
    \/ e.op \in {"write_parquet", "upload_from_filename"} /\ "stops" \in Range(e.target)

IngestRuns == {r \in Runs : run[r].kind = "ingest"}

PromoteRuns == {r \in Runs : run[r].kind = "promote"}

\* the successful uploads of a run, in order
Uploads(r) ==
    LET ups == SelectOp(run[r].log, {"upload_from_filename"}, 1)
    IN  SelectIdx(ups, [i \in 1..Len(ups) |-> ups[i].ok], 1)

\* the ids of the payload items whose stop code is allow-listed
Surviving(payload) ==
    {payload[i].id : i \in {j \in 1..Len(payload) :
        payload[j].attributes.stop_code \in {"8147", "8545", "7149", "8331", "7133"}}}

StopsObject(d) == ObjectPath(IngestBucket, StopsBlobName(d))

TripsObject(d, id) == ObjectPath(IngestBucket, TripsBlobName(d, id))

----------------------------------------------------------------------------
(* C1: in an ingestion run, when the stops fetch, the stops filter or the  *)
(* stops sink fails, the run has aborted at that step: the failure is the  *)
(* last operation of the run, and the run has performed no trips fetch and *)
(* no trips write.                                                         *)
C1_StopsFailureAbortsRun ==
    \A r \in IngestRuns :
        \A i \in 1..Len(run[r].log) :
            (~run[r].log[i].ok /\ IsStopsEvent(run[r].log[i])) =>
                /\ run[r].pc = "failed"
                /\ i = Len(run[r].log)
                /\ \A j \in 1..Len(run[r].log) : ~IsTripsEvent(run[r].log[j])

\* a run whose upload of the stops has failed, for a date with survivors
C1_Witness ==
    \E r \in IngestRuns :
        /\ run[r].pc = "failed"
        /\ run[r].log[Len(run[r].log)].op = "upload_from_filename"
        /\ Len(run[r].df_stops.rows) > 0

(* C2: an ingestion run in which no operation fails has uploaded exactly   *)
(* one stops object and one trips object per payload record whose stop     *)
(* code is allow-listed, and nothing else; the objects are in the store.   *)
C2_OneObjectPerSurvivingStop ==
    \A r \in IngestRuns :
        run[r].pc = "done" =>
            LET d    == run[r].date
                ids  == Surviving(apiStops[d])
                ups  == Targets(Uploads(r))
            IN  /\ Len(ups) = 1 + Cardinality(ids)
                /\ ups[1] = StopsObject(d)
                /\ {ups[i] : i \in 2..Len(ups)} = {TripsObject(d, id) : id \in ids}
                /\ Range(ups) \subseteq DOMAIN store

\* a completed run over a payload of three records of which two survive
C2_Witness ==
    \E r \in IngestRuns :
        /\ run[r].pc = "done"
        /\ Len(apiStops[run[r].date]) = 3
        /\ Cardinality(Surviving(apiStops[run[r].date])) = 2
        /\ Len(Uploads(r)) = 3

(* C4: in an ingestion run, when the trips fetch or the trips sink fails   *)
(* for the stop id at position k, the run has aborted there: the failure   *)
(* is its last operation, trips were fetched once for each of the          *)
(* positions 1..k in order and for no other, and the stops object and the  *)
(* trips objects of the positions before k are in the object store.        *)
C4_TripsFailureAbortsRun ==
    \A r \in IngestRuns :
        \A i \in 1..Len(run[r].log) :
            (~run[r].log[i].ok /\ IsTripsEvent(run[r].log[i])) =>
                LET k == run[r].k
                    ids == run[r].stop_ids
                IN  /\ run[r].pc = "failed"
                    /\ i = Len(run[r].log)
                    /\ k \in 1..Len(ids)
                    /\ Targets(SelectOp(run[r].log, {"get_trips_data"}, 1))
                          = [j \in 1..k |-> <<ids[j]>>]
                    /\ Targets(Uploads(r))
                          = <<StopsObject(run[r].date)>> \o
                            [j \in 1..(k - 1) |-> TripsObject(run[r].date, ids[j])]
                    /\ StopsObject(run[r].date) \in DOMAIN store
                    /\ \A j \in 1..(k - 1) :
                          TripsObject(run[r].date, ids[j]) \in DOMAIN store

\* a run that has failed at the second of three stop ids
C4_Witness ==
    \E r \in IngestRuns :
        /\ run[r].pc = "failed"
        /\ Len(run[r].stop_ids) = 3
        /\ run[r].k = 2
        /\ IsTripsEvent(run[r].log[Len(run[r].log)])

----------------------------------------------------------------------------
(* Reading a promotion run's trace *)

IsTripsLoadEvent(e) ==
    e.op \in {"load_table_from_uri", "result"} /\ "trips_" \in Range(e.target)

\* the loads of trips tables a run has submitted or tried to submit, in order
TripsSubmissions(r) ==
    LET subs == SelectOp(run[r].log, {"load_table_from_uri"}, 1)
    IN  SelectIdx(subs, [i \in 1..Len(subs) |-> "trips_" \in Range(subs[i].target)], 1)

\* the loads a run has waited for with success, in order
Loaded(r) ==
    LET res == SelectOp(run[r].log, {"result"}, 1)
    IN  SelectIdx(res, [i \in 1..Len(res) |-> res[i].ok], 1)

TripsLoaded(r) ==
    SelectIdx(Loaded(r), [i \in 1..Len(Loaded(r)) |->
                             "trips_" \in Range(Loaded(r)[i].target)], 1)

StopsTable(d) == TableRef(dataset_id, StopsTableId(d))

TripsTable(d, id) == TableRef(dataset_id, TripsTableId(d, id))

\* the names listed under a date whose file name matches the trips pattern
MatchingNames(d) ==
    {n \in Listed(source_bucket_name, <<d>>) : SearchMatches(LastSegment(n))}

(* C3: after a failure-free ingestion run for a date with n surviving      *)
(* stops, a failure-free promotion run for the date has loaded 1 stops     *)
(* table and n trips tables, each trips table from an object that the      *)
(* ingestion run wrote.                                                    *)
C3_PromotionLoadsWhatIngestionWrote ==
    \A i \in IngestRuns, p \in PromoteRuns :
        (run[i].pc = "done" /\ run[p].pc = "done" /\ run[i].date = run[p].date) =>
            /\ Len(Loaded(p)) - Len(TripsLoaded(p)) = 1
            /\ Len(TripsLoaded(p)) = Cardinality(Surviving(apiStops[run[i].date]))
            /\ \A j \in 1..Len(TripsSubmissions(p)) :
                  ObjectOfUri(TripsSubmissions(p)[j].target)
                      \in Range(Targets(Uploads(i)))

(* C5: a promotion run that has completed has loaded one trips table for   *)
(* every object listed under the date prefix whose file name matches the   *)
(* trips pattern, whatever its identifier and whoever wrote it.            *)
C5_EveryDiscoveredIdIsLoaded ==
    \A r \in PromoteRuns :
        run[r].pc = "done" =>
            LET d == run[r].date
            IN  /\ Len(TripsLoaded(r)) = Cardinality(MatchingNames(d))
                /\ \A n \in MatchingNames(d) :
                      LET table == TripsTable(d, SearchGroup(LastSegment(n)))
                      IN  /\ table \in Range(Targets(TripsLoaded(r)))
                          /\ table \in DOMAIN warehouse

\* a completed promotion that has loaded the table of an identifier that is
\* no stop id of the source API, from an object no ingestion run wrote
C5_Witness ==
    \E r \in PromoteRuns :
        /\ run[r].pc = "done"
        /\ TripsTable(run[r].date, <<"777">>) \in Range(Targets(TripsLoaded(r)))
        /\ "777" \notin StopIds
        /\ \A i \in IngestRuns : Uploads(i) = <<>>

(* C6: in a promotion run, when the load of the identifier at position k   *)
(* fails, the run has ended with that error: the failure is its last       *)
(* operation, loads were submitted for the positions 1..k in order and for *)
(* no other, and the tables of the positions before k are loaded.          *)
C6_LoadFailureAbortsLoop ==
    \A r \in PromoteRuns :
        \A i \in 1..Len(run[r].log) :
            (~run[r].log[i].ok /\ IsTripsLoadEvent(run[r].log[i])) =>
                LET k == run[r].k
                    ids == run[r].route_ids
                    d == run[r].date
                IN  /\ run[r].pc = "failed"
                    /\ i = Len(run[r].log)
                    /\ k \in 1..Len(ids)
                    /\ Targets(TripsSubmissions(r)) =
                          [j \in 1..k |->
                              SourceUri(source_bucket_name, TripsSourceFile(d, ids[j]))]
                    /\ Targets(TripsLoaded(r)) = [j \in 1..(k - 1) |-> TripsTable(d, ids[j])]
                    /\ \A j \in 1..(k - 1) : TripsTable(d, ids[j]) \in DOMAIN warehouse

\* a promotion that has failed at the second of three identifiers
C6_Witness ==
    \E r \in PromoteRuns :
        /\ run[r].pc = "failed"
        /\ Len(run[r].route_ids) = 3
        /\ run[r].k = 2
        /\ IsTripsLoadEvent(run[r].log[Len(run[r].log)])

(* C7: when the same source URI has been loaded into the same table more   *)
(* than once and the source object has not changed, the table holds what   *)
(* it held after the first of these loads: the rows of the source, once.   *)
C7_LoadIsIdempotent ==
    \A j1, j2 \in 1..Len(jobs) :
        (/\ j1 < j2
         /\ jobs[j1].state = "DONE" /\ jobs[j2].state = "DONE"
         /\ jobs[j1].table = jobs[j2].table
         /\ jobs[j1].source_uri = jobs[j2].source_uri
         /\ jobs[j1].loaded = jobs[j2].loaded) =>
            warehouse[jobs[j1].table] = jobs[j1].loaded

\* the same source has been loaded twice into the same table
C7_Witness ==
    \E j1, j2 \in 1..Len(jobs) :
        /\ j1 < j2
        /\ jobs[j1].state = "DONE" /\ jobs[j2].state = "DONE"
        /\ jobs[j1].table = jobs[j2].table
        /\ jobs[j1].source_uri = jobs[j2].source_uri
        /\ Len(warehouse[jobs[j1].table].rows) = 1

----------------------------------------------------------------------------
(* What one uninterrupted run for a date leaves behind *)

\* the objects of the ingestion bucket for a date
DateObjects(d) == {p \in DOMAIN store : p[1] = IngestBucket /\ d \in Range(p)}

IngestedState(d) ==
    LET fetched == with_columns(DataFrame(apiStops[d]), d)
    IN  /\ DateObjects(d) =
              {StopsObject(d)} \cup {TripsObject(d, id) : id \in Surviving(apiStops[d])}
        /\ store[StopsObject(d)] = [fetched EXCEPT !.rows = FilterRows(fetched.rows)]
        /\ \A id \in Surviving(apiStops[d]) :
              store[TripsObject(d, id)] = with_columns(DataFrame(ApiTrips(id, d)), d)

PromotedState(d) ==
    /\ DOMAIN warehouse =
          {StopsTable(d)} \cup
          {TripsTable(d, SearchGroup(LastSegment(n))) : n \in MatchingNames(d)}
    /\ warehouse[StopsTable(d)] = store[ObjectPath(source_bucket_name, StopsSourceFile(d))]
    /\ \A n \in MatchingNames(d) :
          LET id == SearchGroup(LastSegment(n))
          IN  warehouse[TripsTable(d, id)] =
                  store[ObjectPath(source_bucket_name, TripsSourceFile(d, id))]

(* C8: a run for a date that completes leaves the object store (ingestion) *)
(* or the warehouse (promotion) for that date in the state of a single     *)
(* uninterrupted run, whether it is the first run for the date or the      *)
(* re-run after a run for the date that failed at any step.                *)
C8_RerunEqualsSingleRun ==
    \A r \in Runs :
        (/\ run[r].pc = "done"
         /\ \A q \in Runs : run[q].kind = run[r].kind /\ run[q].date = run[r].date) =>
            IF run[r].kind = "ingest" THEN IngestedState(run[r].date)
            ELSE PromotedState(run[r].date)

\* a run that failed after it had written or loaded something, and its
\* re-run for the same date that has completed
C8_Witness ==
    /\ run[1].pc = "failed"
    /\ Len(Uploads(1)) + Len(Loaded(1)) > 0
    /\ run[2].pc = "done"
    /\ run[2].kind = run[1].kind
    /\ run[2].date = run[1].date

----------------------------------------------------------------------------
(* Concurrent runs *)

DoneJobs == {j \in 1..Len(jobs) : jobs[j].state = "DONE"}

(* C9: when loads of concurrent promotion runs into the same table have    *)
(* completed, the table holds exactly what the load that completed last    *)
(* read from its source: never the rows of both loads.                     *)
C9_LaterWriterWins ==
    \A j \in DoneJobs :
        (\A i \in DoneJobs : jobs[i].table = jobs[j].table => jobs[i].commit <= jobs[j].commit)
            => warehouse[jobs[j].table] = jobs[j].loaded

\* both runs have ended, their loads into one table have both succeeded and
\* have read different contents of the source
C9_Witness ==
    /\ \A r \in Runs : run[r].pc \in Terminal
    /\ \E i, j \in DoneJobs :
          /\ jobs[i].run # jobs[j].run
          /\ jobs[i].table = jobs[j].table
          /\ jobs[i].loaded # jobs[j].loaded
          /\ jobs[i].commit < jobs[j].commit
          /\ warehouse[jobs[j].table] = jobs[j].loaded

(* C10: when two ingestion runs for different dates have run concurrently  *)
(* and have ended, the object at every address a run has uploaded to holds *)
(* the records that this run passed to the sink.                           *)
C10_EachDateHoldsItsOwnRecords ==
    (\A q \in Runs : run[q].pc \in Terminal) =>
        \A r \in IngestRuns :
            \A i \in 1..Len(Uploads(r)) :
                store[Uploads(r)[i].target] = Uploads(r)[i].data

----------------------------------------------------------------------------
(* The sinks *)

\* the address the claim gives to the record set of an upload
ClaimedSinkAddress(r, e) ==
    IF IsStopsEvent(e)
    THEN {<<"at-bus-open-data", "/", run[r].date, "/", "stops", ".parquet">>}
    ELSE {<<"at-bus-open-data", "/", run[r].date, "/", "trips_", id, ".parquet">> :
             id \in Range(run[r].stop_ids)}

(* C11: every upload of a sink for date d goes to the bucket               *)
(* "at-bus-open-data", the stops to the key "<d>/stops.parquet" and the    *)
(* trips of identifier i to the key "<d>/trips_<i>.parquet".               *)
C11_SinkAddressIsDateThenEntity ==
    \A r \in IngestRuns :
        \A i \in 1..Len(Uploads(r)) :
            Uploads(r)[i].target \in ClaimedSinkAddress(r, Uploads(r)[i])

\* the upload of a call is the last one to its address so far
IsLastWrite(r, i) ==
    /\ \A j \in (i + 1)..Len(Uploads(r)) : Uploads(r)[j].target # Uploads(r)[i].target
    /\ \A q \in IngestRuns :
          q > r => \A j \in 1..Len(Uploads(q)) :
                      Uploads(q)[j].target # Uploads(r)[i].target

\* a sink is about to upload
AtUpload(r) == run[r].pc \in {"send_stop_upload", "send_trips_upload"}

(* C12: after any sequence of successful sink writes, the object at an     *)
(* address holds exactly the records of the last write to that address;    *)
(* and a sink that is about to upload can succeed whether or not the       *)
(* object exists already.                                                  *)
C12_LastWriteWins ==
    /\ \A r \in IngestRuns :
          \A i \in 1..Len(Uploads(r)) :
              IsLastWrite(r, i) => store[Uploads(r)[i].target] = Uploads(r)[i].data
    /\ \A r \in IngestRuns :
          AtUpload(r) =>
              ENABLED (/\ send_stop_upload(r) \/ send_trips_upload(r)
                       /\ run'[r].pc # "failed")

\* two calls have written different records to one address, one after the
\* other, and the object holds the records of the second
C12_Witness ==
    /\ Len(Uploads(1)) = 1 /\ Len(Uploads(2)) = 1
    /\ Uploads(1)[1].target = Uploads(2)[1].target
    /\ Uploads(1)[1].data # Uploads(2)[1].data
    /\ Len(Uploads(1)[1].data.rows) > 0
    /\ store[Uploads(2)[1].target] = Uploads(2)[1].data

IsSinkEvent(e) == e.op \in {"write_parquet", "upload_from_filename"}

\* every object of the store holds what the last upload to it by a call
\* other than r has put there
UntouchedBy(r) ==
    \A p \in DOMAIN store :
        \E q \in IngestRuns \ {r} :
            \E i \in 1..Len(Uploads(q)) :
                /\ Uploads(q)[i].target = p
                /\ IsLastWrite(q, i)
                /\ store[p] = Uploads(q)[i].data

(* C13: a sink writes the local working copy and then uploads it: every    *)
(* upload follows the successful local write of the same records; when the *)
(* local write fails, no upload is attempted and no object has changed;    *)
(* when the local write or the upload fails, the call ends with the error. *)
C13_LocalWriteThenUpload ==
    \A r \in IngestRuns :
        \A i \in 1..Len(run[r].log) :
            LET e == run[r].log[i]
            IN  /\ e.op = "upload_from_filename" =>
                      /\ i > 1
                      /\ run[r].log[i - 1].op = "write_parquet"
                      /\ run[r].log[i - 1].ok
                      /\ run[r].log[i - 1].data = e.data
                /\ (IsSinkEvent(e) /\ ~e.ok) =>
                      /\ i = Len(run[r].log)
                      /\ run[r].pc = "failed"
                /\ (e.op = "write_parquet" /\ ~e.ok) =>
                      /\ Uploads(r) = <<>>
                      /\ UntouchedBy(r)

\* the second call has failed at its local write, and the object that the
\* first call has written is at the address of the second
C13_Witness ==
    /\ Len(Uploads(1)) = 1
    /\ run[2].pc = "failed"
    /\ run[2].log[Len(run[2].log)].op = "write_parquet"
    /\ IsStopsEvent(run[2].log[Len(run[2].log)])
    /\ run[2].date = run[1].date
    /\ run[2].df_stops # run[1].df_stops
    /\ IsStopsEvent(Uploads(1)[1])
    /\ store[Uploads(1)[1].target] = run[1].df_stops

----------------------------------------------------------------------------
(* Discovery *)

\* the pattern trips_(.*)\.parquet$ searched in a segment: the segment ends
\* with the extension and has a "trips_" before it
AnchoredStarts(blob_name) ==
    {i \in 1..(Len(blob_name) - 1) :
        blob_name[i] = "trips_" /\ blob_name[Len(blob_name)] = ".parquet"}

\* the group of the anchored pattern: from the leftmost "trips_" to the
\* extension that ends the segment
AnchoredGroup(blob_name) ==
    LET i == CHOOSE a \in AnchoredStarts(blob_name) :
                 \A b \in AnchoredStarts(blob_name) : a <= b
    IN  SubSeq(blob_name, i + 1, Len(blob_name) - 1)

RECURSIVE AnchoredIds(_, _)
\* the identifiers of the keys whose last segment the anchored pattern matches
AnchoredIds(blobs, i) ==
    IF i > Len(blobs) THEN <<>>
    ELSE LET blob_name == LastSegment(blobs[i])
         IN  (IF AnchoredStarts(blob_name) # {} THEN <<AnchoredGroup(blob_name)>>
              ELSE <<>>)
             \o AnchoredIds(blobs, i + 1)

\* discovery has returned a list to its caller
DiscoveryReturned(r) ==
    /\ run[r].pc \in {"move_trips_submit", "done"}
    /\ \E i \in 1..Len(run[r].log) : run[r].log[i].op = "list_blobs"

\* C14: discovery returns, in listing order, exactly the identifier of each
\* listed key whose final path segment matches trips_(.*)\.parquet anchored
\* at the end of the segment, verbatim, and nothing for any other key; an
\* empty listing or one without such keys gives the empty list, no error.
C14_DiscoveryMatchesAnchoredPattern ==
    \A r \in PromoteRuns :
        DiscoveryReturned(r) => run[r].route_ids = AnchoredIds(run[r].blobs, 1)

----------------------------------------------------------------------------
(* Promotion *)

\* f"at-bus/{exec_date}": the prefix the claim gives to the objects of a date
ClaimedPrefix(d) == <<"at-bus", "/", d>>

\* the source URIs the claim gives to the loads of a run
ClaimedStopsUri(bucket, d) ==
    <<"gs://", bucket, "/">> \o ClaimedPrefix(d) \o <<"/", "stops", ".parquet">>

ClaimedTripsUri(bucket, d, route_id) ==
    <<"gs://", bucket, "/">> \o ClaimedPrefix(d) \o <<"/", "trips_">> \o route_id
        \o <<".parquet">>

(* C15: a promotion run lists with the prefix "at-bus/<date>", loads the   *)
(* table "stops_<date>" of the dataset "at_bus_bronze" from                *)
(* "gs://<bucket>/at-bus/<date>/stops.parquet", and loads, one per         *)
(* discovered identifier and in discovery order, the table                 *)
(* "trips_<id>_<date>" from "gs://<bucket>/at-bus/<date>/trips_<id>.parquet". *)
C15_PromotionAddressesUnderAtBus ==
    \A r \in PromoteRuns :
        LET d    == run[r].date
            subs == SelectOp(run[r].log, {"load_table_from_uri"}, 1)
            ids  == run[r].route_ids
        IN  /\ \A i \in 1..Len(run[r].log) :
                  run[r].log[i].op = "list_blobs" =>
                      run[r].log[i].target = ClaimedPrefix(d)
            /\ Len(subs) > 0 => subs[1].target = ClaimedStopsUri(source_bucket_name, d)
            /\ Len(subs) <= 1 + Len(ids)
            /\ \A j \in 2..Len(subs) :
                  subs[j].target = ClaimedTripsUri(source_bucket_name, d, ids[j - 1])
            /\ \A j \in 1..Len(jobs) :
                  jobs[j].run = r =>
                      jobs[j].table \in
                          {<<"at_bus_bronze", ".", "stops_", d>>} \cup
                          {<<"at_bus_bronze", ".", "trips_">> \o ids[k] \o <<"_", d>> :
                              k \in 1..Len(ids)}

\* the load jobs a run has submitted, in submission order
JobsOf(r) == SelectIdx(jobs, [j \in 1..Len(jobs) |-> jobs[j].run = r], 1)

\* the run is inside load_job.result()
Waiting(r) == run[r].pc \in {"move_stops_result", "move_trips_result"}

IsLoadEvent(e) == e.op \in {"load_table_from_uri", "result"}

(* C16: a load returns only after its job has reached a terminal state,    *)
(* with success when the job is done and with the error when it has        *)
(* failed; a failed submission or a failed job ends the run with the       *)
(* error; and a run submits a load only after the load before it has       *)
(* completed.                                                              *)
C16_LoadIsBlocking ==
    \A r \in PromoteRuns :
        LET res  == SelectOp(run[r].log, {"result"}, 1)
            mine == JobsOf(r)
        IN  /\ Len(res) = Len(mine) - (IF Waiting(r) THEN 1 ELSE 0)
            /\ \A i \in 1..Len(res) :
                  /\ res[i].target = mine[i].table
                  /\ mine[i].state = IF res[i].ok THEN "DONE" ELSE "FAILED"
            /\ \A i \in 1..(Len(mine) - 1) : mine[i].state = "DONE"
            /\ \A i \in 1..Len(run[r].log) :
                  (IsLoadEvent(run[r].log[i]) /\ ~run[r].log[i].ok) =>
                      /\ i = Len(run[r].log)
                      /\ run[r].pc = "failed"

\* a run whose third load is submitted and still running while its first
\* two are done, next to a run that has ended with the error of a failed job
C16_Witness ==
    \E r, q \in PromoteRuns :
        /\ Len(JobsOf(r)) = 3
        /\ JobsOf(r)[3].state = "RUNNING"
        /\ Waiting(r)
        /\ run[q].pc = "failed"
        /\ Len(JobsOf(q)) = 2
        /\ JobsOf(q)[2].state = "FAILED"

----------------------------------------------------------------------------
(* The fetch *)

FetchReturned == call.fn = "get_at_gtfs_data_from_at_mobile_api" /\ call.pc = "returned"

(* C17: for every response whose status is not 200 the fetch fails with an *)
(* error that carries the status code and the body text; it returns no     *)
(* records, does not read the JSON body, builds no frame and has sent the  *)
(* request once.                                                           *)
C17_Non200Fails ==
    (FetchReturned /\ call.response.status_code # 200) =>
        /\ call.result.raised
        /\ call.result.error.type = "Exception"
        /\ ToString(call.response.status_code) \in Range(call.result.error.message)
        /\ call.response.text \in Range(call.result.error.message)
        /\ call.result.df = NoFrame
        /\ call.result.json_calls = 0
        /\ call.result.frames = 0
        /\ call.result.requests = 1

\* a response of status 500 whose body would have parsed to two records
C17_Witness ==
    /\ FetchReturned
    /\ call.response.status_code = 500
    /\ "data" \in DOMAIN call.response.json
    /\ Len(call.response.json.data) = 2
    /\ call.result.raised

\* a response of status 200 whose body has no key "data"
MissingDataKey == call.response.status_code = 200 /\ "data" \notin DOMAIN call.response.json

(* C18: when the body of a 200 response has no key "data", the fetch only  *)
(* logs the error and continues: it does not fail with an error.           *)
C18_MissingKeyOnlyLogs ==
    (FetchReturned /\ MissingDataKey) =>
        /\ call.result.logged = <<"Expected 'data' key in the JSON response">>
        /\ ~call.result.raised

(* C18, amended: when the body of a 200 response has no key "data", the    *)
(* fetch logs the error and then fails: reading the key raises a KeyError  *)
(* to the caller, and no records are returned.                             *)
C18_MissingKeyLogsThenFails ==
    (FetchReturned /\ MissingDataKey) =>
        /\ call.result.logged = <<"Expected 'data' key in the JSON response">>
        /\ call.result.raised
        /\ call.result.error = [type |-> "KeyError", message |-> <<"data">>]
        /\ call.result.df = NoFrame
        /\ call.result.requests = 1

\* the fetch has come back from a 200 response without the key
C18_Witness ==
    /\ FetchReturned
    /\ MissingDataKey
    /\ call.result.raised
    /\ call.result.json_calls = 1

----------------------------------------------------------------------------
(* The filter *)

\* the rows whose stop code is one of the five, in their order
AllowListed(rows) ==
    SelectIdx(rows, [i \in 1..Len(rows) |->
        rows[i].stop_code \in {"8147", "8545", "7149", "8331", "7133"}], 1)

\* the filter has come back from a call, with or without an error
FilterReturned(r) ==
    /\ Len(run[r].log) = 2
    /\ run[r].log[1].op = "call"
    /\ run[r].log[2].op = "filter_stops_data"

(* C19: for every input whose records carry a stop code, and for the empty *)
(* input, the filter returns without an error exactly the records whose    *)
(* stop code is one of the five fixed codes, in their input order and      *)
(* unchanged; an empty input or one without a match gives no records.      *)
C19_FilterKeepsAllowListed ==
    \A r \in IngestRuns :
        LET input == run[r].log[1].data
        IN  (FilterReturned(r) /\ (input.rows = <<>> \/ "stop_code" \in input.columns)) =>
                /\ run[r].log[2].ok
                /\ run[r].pc # "failed"
                /\ run[r].df_stops.rows = AllowListed(input.rows)

----------------------------------------------------------------------------
(* The date argument *)

\* the date arguments that are a date of the calendar written YYYY-MM-DD
CalendarDates == {"2024-01-01", "2024-01-02", "2020-02-29", "2000-02-29"}

(* C20: both entry points validate the date first: a run started with a    *)
(* calendar date in the strict form YYYY-MM-DD passes the validation, and  *)
(* a run started with any other string ends with a parameter error that    *)
(* names the string, before any fetch, upload, listing or load.            *)
C20_DateIsValidatedFirst ==
    \A r \in Runs :
        run[r].pc # "idle" =>
            IF run[r].date \in CalendarDates
            THEN \A i \in 1..Len(run[r].log) : run[r].log[i].op # "validate_date"
            ELSE /\ run[r].pc = "failed"
                 /\ Len(run[r].log) = 1
                 /\ run[r].log[1].op = "validate_date"
                 /\ ~run[r].log[1].ok
                 /\ run[r].date \in Range(run[r].log[1].target)
                 /\ \A j \in 1..Len(jobs) : jobs[j].run # r
                 /\ run[r].blobs = <<>>

\* a promotion started with 29 February of a year that is no leap year has
\* ended at the validation, and the ingestion for 29 February 2020 after it
\* has uploaded
C20_Witness ==
    /\ run[1].kind = "promote"
    /\ run[1].date = "2023-02-29"
    /\ run[1].pc = "failed"
    /\ run[2].kind = "ingest"
    /\ run[2].date = "2020-02-29"
    /\ Len(Uploads(2)) > 0

----------------------------------------------------------------------------
(* The API key *)

\* AT_API_KEY is absent from the environment of the run, or empty
NoApiKey(r) ==
    "AT_API_KEY" \notin DOMAIN run[r].environ \/ run[r].environ["AT_API_KEY"] = ""

\* the run has come to its first fetch and has left it
PastFirstFetch(r) == run[r].pc \notin {"idle", "get_stops_data"}

(* C21: when AT_API_KEY is absent or empty, get_at_api_key fails with a    *)
(* ValueError, and an ingestion run in that situation ends at its first    *)
(* fetch with an error: it has sent no HTTP request to the source API and  *)
(* has written no file and no object.                                      *)
C21_NoKeyNoRequest ==
    \A r \in IngestRuns :
        NoApiKey(r) =>
            /\ get_at_api_key(run[r].environ).raised
            /\ get_at_api_key(run[r].environ).error.type = "ValueError"
            /\ PastFirstFetch(r) =>
                  /\ run[r].pc = "failed"
                  /\ run[r].log = <<Event("get_stops_data", <<"no_api_key">>,
                                          FALSE, NoFrame)>>
                  /\ DOMAIN store \subseteq
                        UNION {Range(Targets(Uploads(q))) : q \in IngestRuns \ {r}}
                  /\ DOMAIN localFs \subseteq
                        UNION {Range(Targets(SelectOp(run[q].log, {"write_parquet"}, 1))) :
                                  q \in IngestRuns \ {r}}

\* a run without the variable and a run with the empty variable have both
\* ended at their first fetch, for a payload with a stop of the allow-list
C21_Witness ==
    /\ run[1].environ = <<>>
    /\ run[2].environ = [AT_API_KEY |-> ""]
    /\ run[1].pc = "failed" /\ run[2].pc = "failed"
    /\ Surviving(apiStops[Date1]) # {}
    /\ DOMAIN store = {}

----------------------------------------------------------------------------
(* No retry *)

\* no element occurs twice in the sequence
Distinct(q) == \A i, j \in 1..Len(q) : i # j => q[i] # q[j]

\* the targets of the operations of a run with one of the given names
Attempts(r, ops) == Targets(SelectOp(run[r].log, ops, 1))

(* C22: in every ingestion or promotion run, each stops fetch, each trips  *)
(* fetch of a stop id, each sink write of an address and each load of a    *)
(* table is attempted at most once, and the first error ends the run with  *)
(* that error: no operation of the run comes after it.                     *)
C22_EachOperationAtMostOnce ==
    \A r \in Runs :
        /\ Distinct(Attempts(r, {"requests.get"}))
        /\ Len(Attempts(r, {"get_stops_data"})) <= 1
        /\ Distinct(Attempts(r, {"get_trips_data"}))
        /\ Distinct(Attempts(r, {"write_parquet"}))
        /\ Distinct(Attempts(r, {"upload_from_filename"}))
        /\ Len(Attempts(r, {"list_blobs"})) <= 1
        /\ Distinct(Attempts(r, {"load_table_from_uri"}))
        /\ Distinct(Attempts(r, {"result"}))
        /\ \A i \in 1..Len(run[r].log) :
              ~run[r].log[i].ok => i = Len(run[r].log) /\ run[r].pc = "failed"

----------------------------------------------------------------------------
(* Discovery and the source URIs built from it *)

\* the listed keys from which discovery extracts an identifier, in order
MatchingBlobs(blobs) ==
    SelectIdx(blobs, [i \in 1..Len(blobs) |-> SearchMatches(LastSegment(blobs[i]))], 1)

(* C29: the source URI that a promotion run builds for the identifier it   *)
(* has extracted from a listed key denotes that same key of the bucket, so *)
(* every load of a trips table is submitted for an object of the listing.  *)
C29_UriDenotesListedKey ==
    \A r \in PromoteRuns :
        LET keys == MatchingBlobs(run[r].blobs)
            subs == TripsSubmissions(r)
        IN  \A k \in 1..Len(subs) :
                /\ ObjectOfUri(subs[k].target) = ObjectPath(source_bucket_name, keys[k])
                /\ \E i \in 1..Len(run[r].blobs) :
                      ObjectOfUri(subs[k].target) =
                          ObjectPath(source_bucket_name, run[r].blobs[i])

----------------------------------------------------------------------------
(* Flattening *)

FlattenReturned == call.fn = "flatten" /\ call.pc # "called" /\ ~call.once.raised

\* the struct columns and the scalar columns of the payload of the call
InputStructs ==
    IF call.json_data = <<>> THEN {}
    ELSE {c \in DOMAIN call.json_data[1] : call.json_data[1][c].kind = "struct"}

InputScalars ==
    IF call.json_data = <<>> THEN {}
    ELSE DOMAIN call.json_data[1] \ InputStructs

(* C23: flattening resolves exactly one nesting level. The columns of the  *)
(* output are the scalar columns of the input and the fields of its struct *)
(* columns; a scalar keeps its value in every row; every field has in      *)
(* every row the value it had inside the nested object, so a field that is *)
(* itself a struct is a struct column of the output.                       *)
C23_FlattenOneLevel ==
    FlattenReturned =>
        LET in  == call.json_data
            out == call.once.df
        IN  /\ Range(out.columns) =
                   InputScalars \cup UNION {DOMAIN in[1][c].fields : c \in InputStructs}
            /\ Len(out.rows) = Len(in)
            /\ \A i \in 1..Len(in) :
                  /\ \A c \in InputScalars : out.rows[i][c] = in[i][c]
                  /\ \A c \in InputStructs : \A f \in DOMAIN in[i][c].fields :
                        out.rows[i][f] = in[i][c].fields[f]

C23_Witness ==
    /\ FlattenReturned
    /\ Len(call.json_data) = 2
    /\ "relationships" \in InputScalars
    /\ Range(call.once.df.columns) = {"id", "stop_code", "location", "relationships"}
    /\ call.once.df.rows[2]["location"] = Struct([lat |-> Scalar("-36.8485")])
    /\ call.once.df.rows[2]["id"] = Scalar("200")

\* a struct lies inside a nested object of the payload
NestedTwice ==
    \E c \in InputStructs : \E f \in DOMAIN call.json_data[1][c].fields :
        call.json_data[1][c].fields[f].kind = "struct"

FlattenedTwice == FlattenReturned /\ call.pc = "flattened_again"

(* C24 as stated: for all record sets, flattening the output of the        *)
(* flattening returns that output unchanged.                               *)
C24_FlattenIdempotent ==
    FlattenedTwice => ~call.twice.raised /\ call.twice.df = call.once.df

(* C24 amended: flattening the output of the flattening returns it         *)
(* unchanged exactly for the record sets that have no struct inside a      *)
(* nested object; for the others the second flattening unnests the struct  *)
(* that the first has left.                                                *)
C24_FlattenIdempotentOnOneLevel ==
    FlattenedTwice =>
        ((~call.twice.raised /\ call.twice.df = call.once.df) <=> ~NestedTwice)

C24_Witness ==
    /\ FlattenedTwice
    /\ ~NestedTwice
    /\ InputStructs = {"attributes", "relationships"}
    /\ Len(call.json_data) = 2
    /\ call.twice.df = call.once.df
    /\ Range(call.twice.df.columns) = {"id", "stop_code", "route"}

----------------------------------------------------------------------------
(* The record validator *)

\* a value the tests of the models give as out of range, in the attributes
\* of a stop or of a trip
StopOutOfRange(a) ==
    \/ "stop_lat" \in DOMAIN a /\ a.stop_lat \notin -90..90
    \/ a.stop_lon \notin -180..180
    \/ a.location_type \notin 0..4

TripOutOfRange(a) ==
    \/ time_fromisoformat_raises(a.arrival_time)
    \/ date_fromisoformat_raises(a.service_date)
    \/ a.direction_id \notin {0, 1}
    \/ "stop_sequence" \in DOMAIN a /\ a.stop_sequence <= 0

OutOfRange ==
    IF call.fn = "StopAttributes" THEN StopOutOfRange(call.data)
    ELSE IF call.fn = "TripAttributes" THEN TripOutOfRange(call.data)
    ELSE IF call.fn = "StopData"
         THEN call.data.type \notin {"stop", "stops"} \/ StopOutOfRange(call.data.attributes)
    ELSE IF call.fn = "TripData"
         THEN call.data.type \notin {"stoptrip", "stoptrips"}
              \/ TripOutOfRange(call.data.attributes)
    ELSE FALSE

ModelReturned ==
    call.fn \in {"StopAttributes", "StopData", "TripAttributes", "TripData"}
    /\ call.pc = "returned"

(* C25: the construction of a stop record or of a trip record with a value *)
(* out of range or a wrong record type fails with a validation error and   *)
(* produces no record.                                                     *)
C25_ValidatorRejectsOutOfRange ==
    ModelReturned /\ OutOfRange =>
        call.result.raised /\ call.result.error.type = "ValidationError"

----------------------------------------------------------------------------
(* The order of the operations of an ingestion run *)

\* the ids of the rows of the stops frame of the run, in the order of the
\* rows
FilteredIds(r) ==
    LET df == run[r].df_stops
    IN  IF "id" \in df.columns THEN [i \in 1..Len(df.rows) |-> df.rows[i].id]
        ELSE <<>>

\* the operations of the loop over the stop ids: request, fetch, local
\* write and upload
IsTripsPhaseEvent(e) ==
    \/ IsTripsEvent(e)
    \/ e.op = "requests.get" /\ "stoptrips" \in Range(e.target)

TripsPhase(r) ==
    SelectIdx(run[r].log,
              [i \in 1..Len(run[r].log) |-> IsTripsPhaseEvent(run[r].log[i])], 1)

Step(e) == <<e.op, e.target>>

\* the operations of the loop for the stop ids from position j on
RECURSIVE TripsSteps(_, _, _)
TripsSteps(d, ids, j) ==
    IF j > Len(ids) THEN <<>>
    ELSE <<<<"requests.get", <<"stops", "/", ids[j], "/", "stoptrips">>>>,
           <<"get_trips_data", <<ids[j]>>>>,
           <<"write_parquet", TripsLocalFile(ids[j])>>,
           <<"upload_from_filename", TripsObject(d, ids[j])>>>>
         \o TripsSteps(d, ids, j + 1)

(* C26: the operations of an ingestion run on the stop ids happen one      *)
(* after the other in the order of the filtered stop ids: for each id the  *)
(* request, the fetch, the local write and the upload, each begun when the *)
(* one before it has completed, the fetch of an id only after the upload   *)
(* of the id before it; the run is at one operation at a time.             *)
C26_TripsInFilteredOrder ==
    \A r \in IngestRuns :
        LET phase == TripsPhase(r)
        IN  /\ IsPrefix([i \in 1..Len(phase) |-> Step(phase[i])],
                        TripsSteps(run[r].date, FilteredIds(r), 1))
            /\ \A i \in 1..(Len(phase) - 1) : phase[i].ok
            /\ run[r].pc = "get_trips_data" =>
                  Len(phase) = 4 * (run[r].k - 1)
            /\ run[r].pc = "send_trips_write" =>
                  Len(phase) = 4 * (run[r].k - 1) + 2
            /\ run[r].pc = "send_trips_upload" =>
                  Len(phase) = 4 * (run[r].k - 1) + 3
            /\ run[r].pc = "done" => Len(phase) = 4 * Len(FilteredIds(r))

\* a run that has gone through two of three stop ids and is at the fetch of
\* the third
C26_Witness ==
    \E r \in IngestRuns :
        /\ Len(FilteredIds(r)) = 3
        /\ run[r].pc = "get_trips_data"
        /\ Len(TripsPhase(r)) = 8
        /\ TripsPhase(r)[8].op = "upload_from_filename"

(* C28: in every state of an ingestion run the objects the run has written *)
(* are the stops object first and then the trips objects of a prefix of    *)
(* the filtered list of stop ids, in the order of the list: no trips       *)
(* object is written before the stops object.                              *)
C28_StopsFirstThenPrefix ==
    \A r \in IngestRuns :
        LET ups == Targets(Uploads(r))
            ids == FilteredIds(r)
        IN  ups # <<>> =>
                /\ ups[1] = StopsObject(run[r].date)
                /\ Len(ups) - 1 <= Len(ids)
                /\ Tail(ups) = [j \in 1..(Len(ups) - 1) |->
                                   TripsObject(run[r].date, ids[j])]
                /\ Range(ups) \subseteq DOMAIN store

\* a run that has written the stops object and the trips objects of two of
\* its three stop ids, and has failed at the third
C28_Witness ==
    \E r \in IngestRuns :
        /\ Len(FilteredIds(r)) = 3
        /\ Len(Uploads(r)) = 3
        /\ run[r].pc = "failed"

----------------------------------------------------------------------------
(* The effect of a load *)

\* the jobs that reach a terminal state in the step
Completing == {j \in 1..Len(jobs) : jobs[j].state = "RUNNING" /\ jobs'[j].state # "RUNNING"}

\* every table but t is the same before and after the step
OtherTablesUnchanged(t) ==
    /\ DOMAIN warehouse' \ {t} = DOMAIN warehouse \ {t}
    /\ \A u \in DOMAIN warehouse \ {t} : warehouse'[u] = warehouse[u]

(* C27: a load changes only the table it targets. In every step in which a *)
(* load job ends, every other table of the warehouse and every object of   *)
(* the object store, the source of the load among them, are the same       *)
(* before and after; the submission of a load, the wait for it and a load  *)
(* that fails change no table and no object.                               *)
C27_LoadChangesOnlyItsTable ==
    [][ /\ \A j \in Completing :
              /\ store' = store
              /\ OtherTablesUnchanged(jobs[j].table)
              /\ jobs'[j].state = "FAILED" => warehouse' = warehouse
        /\ Len(jobs') # Len(jobs) => store' = store /\ warehouse' = warehouse
        /\ (\E r \in PromoteRuns : run'[r].log # run[r].log) =>
              store' = store /\ warehouse' = warehouse
        /\ warehouse' # warehouse => Completing # {}
      ]_vars

\* two loads into two tables have ended with success: the table of the
\* first is as the first load has left it, and the sources are in the store
C27_Witness ==
    \E i, j \in 1..Len(jobs) :
        /\ i < j
        /\ jobs[i].state = "DONE" /\ jobs[j].state = "DONE"
        /\ jobs[i].table # jobs[j].table
        /\ jobs[i].commit < jobs[j].commit
        /\ warehouse[jobs[i].table] = jobs[i].loaded
        /\ ObjectOfUri(jobs[i].source_uri) \in DOMAIN store
        /\ ObjectOfUri(jobs[j].source_uri) \in DOMAIN store

----------------------------------------------------------------------------
(* The order of a promotion run *)

IsStopsLoadEvent(e) == IsLoadEvent(e) /\ ~IsTripsLoadEvent(e)

(* C30: in a promotion run the load of the stops has completed before the  *)
(* listing: when the run lists the bucket, it has waited with success for  *)
(* the load of the stops table and the job of that load is done. When the  *)
(* load of the stops fails, the run has aborted: the failure is its last   *)
(* operation, and it has listed nothing and submitted no load of trips.    *)
C30_StopsLoadBeforeListing ==
    \A r \in PromoteRuns :
        LET log == run[r].log
            stops_table == TableRef(dataset_id, StopsTableId(run[r].date))
        IN  /\ \A i \in 1..Len(log) :
                  log[i].op = "list_blobs" =>
                      /\ \E j \in 1..(i - 1) :
                            log[j] = Event("result", stops_table, TRUE, log[j].data)
                      /\ \E j \in 1..Len(jobs) :
                            /\ jobs[j].run = r
                            /\ jobs[j].table = stops_table
                            /\ jobs[j].state = "DONE"
            /\ run[r].pc \in {"get_all_route_id", "move_trips_submit", "move_trips_result"}
                  => \E j \in 1..Len(log) :
                        log[j] = Event("result", stops_table, TRUE, log[j].data)
            /\ \A i \in 1..Len(log) :
                  (IsStopsLoadEvent(log[i]) /\ ~log[i].ok) =>
                      /\ run[r].pc = "failed"
                      /\ i = Len(log)
                      /\ SelectOp(log, {"list_blobs"}, 1) = <<>>
                      /\ TripsSubmissions(r) = <<>>

\* a run whose load of the stops has failed while the bucket holds a trips
\* file of its date
C30_Witness ==
    \E r \in PromoteRuns :
        /\ run[r].pc = "failed"
        /\ run[r].log # <<>>
        /\ run[r].log[Len(run[r].log)].op = "result"
        /\ IsStopsLoadEvent(run[r].log[Len(run[r].log)])
        /\ RouteIds(<<TripsSourceFile(run[r].date, <<"100">>)>>, 1) = <<<<"100">>>>
        /\ ObjectPath(source_bucket_name, TripsSourceFile(run[r].date, <<"100">>))
              \in DOMAIN store

====
